---- MODULE Spec2Model ----
(***************************************************************************)
(* Collection handles of the object store: PrimitiveList<T>                *)
(* (src/src/primitive_list.cpp) over a single-column backing table, and    *)
(* List (src/src/list.cpp) over a link view into a target table.           *)
(*                                                                         *)
(* Row and list indices are 0-based as in the source; row r of a table is  *)
(* element r+1 of the sequence that models its column 0.                   *)
(***************************************************************************)
EXTENDS Integers, Sequences, FiniteSets, TLC

VARIABLES
    cls,        \* class of the handles: "PrimitiveList" or "List"
    opt,        \* TRUE when the element type T is util::Optional<...>
    T,          \* the element type the templates are instantiated with
    table,      \* column 0 of m_table (backing table / link target table)
    links,      \* m_link_view: target row indices (List only)
    attached,   \* is_attached() of the storage accessor
    inTx,       \* Realm::is_in_transaction()
    m_notifier, \* handles whose m_notifier is set
    seenInvalidated, \* history: a call on "h" has thrown InvalidatedException
    caller,     \* the execution context the calls come from
    results,    \* the PrimitiveResults the caller holds
    sync,       \* Permissions: the get_permissions and set_permission calls
                \* under way, their boxes, and the callbacks they have made
    callbacks,  \* the registered callbacks: [id, notifier], the notifier
                \* named by the handle that created it
    tokens,     \* the NotificationTokens the caller holds: [id, notifier]
    dropped,    \* ids of the callbacks whose NotificationToken was dropped
    prev,       \* per notifier, the list as of its last run
    last        \* the last call: operation, handle, arguments (of a call
                \* that returned), whether an index argument was out of
                \* range, the storage before the call, what it produced

vars == <<cls, opt, T, sync, caller, results, table, links, attached, inTx, m_notifier, seenInvalidated,
          callbacks, tokens, dropped, prev, last>>

(***************************************************************************)
(* Bounds of the model.                                                    *)
(***************************************************************************)
MaxRows == 2    \* rows a table may hold
MaxLinks == 2   \* entries a link view may hold
MaxCallbacks == 2   \* callbacks registered in all
MaxStack == 2   \* nested calls the stack has room for
MaxNotifications == 3   \* notifications delivered to a Permissions call

(***************************************************************************)
(* Values.                                                                 *)
(***************************************************************************)
Null == -1                    \* util::none / a null cell
not_found == -2               \* realm::not_found (npos)
Default == IF opt THEN Null ELSE 0   \* cell of a freshly added empty row
\* the values stored: the default of the element type and one other value
Values == {Default, 1}
\* the values searched for: 0 is never stored in an optional column
SearchValues == {Null, 0, 1}
Indices == 0 .. MaxRows

(***************************************************************************)
(* Handles.  "h" is constructed on the storage; "dflt" is                  *)
(* default-constructed (m_realm, m_table and m_link_view are all null).    *)
(* The copy operations are defaulted, so a copy of "h" holds the same      *)
(* m_realm and the same storage reference and every call on it is a call   *)
(* on "h".                                                                 *)
(***************************************************************************)
Handles == {"h", "dflt"}
HasRealm(h) == h \notin {"dflt", "dflt2"}
HasStorage(h) == h \notin {"dflt", "dflt2"}

\* The handles two of which are compared or subscribed: "same" is constructed
\* on its own from the storage of "h" (core interns the accessor, so both
\* hold one pointer), "other" from another list, "dflt2" from nothing.
EqHandles == {"h", "same", "other", "dflt", "dflt2"}
SubscribingHandles == {"h", "same", "dflt"}
\* m_link_view.get() / m_table.get()
storage_ptr(h) ==
    CASE h \in {"h", "same"} -> "storage"
      [] h = "other" -> "other storage"
      [] OTHER -> "nullptr"

(***************************************************************************)
(* Undefined behaviour.  Calling through a null m_realm either crashes or  *)
(* falls through to the null check of the storage reference; using a null  *)
(* or detached accessor, or a row index outside the table, either crashes  *)
(* or yields a meaningless value.                                          *)
(***************************************************************************)
NullDerefOutcomes == {"Crash", "Invalidated"}
MisuseOutcomes == {"Crash", "Garbage"}

(***************************************************************************)
(* What a call produces.                                                   *)
(* outcome: "ok" or the exception thrown; requested, valid_count: the      *)
(* fields of an OutOfBoundsIndexException; result: <<>> for no value,      *)
(* <<x>> for a returned value (<<Null>> is util::none), <<s, n>> for the   *)
(* average s/n; engine: the view engine a call derives; touched: the call  *)
(* read or wrote the storage accessor beyond asking is_attached().         *)
(***************************************************************************)
Ok(result, touched) ==
    [outcome |-> "ok", requested |-> -1, valid_count |-> -1,
     result |-> result, engine |-> "", touched |-> touched]
Derived(engine) ==
    [outcome |-> "ok", requested |-> -1, valid_count |-> -1,
     result |-> <<>>, engine |-> engine, touched |-> TRUE]
Throw(e, touched) ==
    [outcome |-> e, requested |-> -1, valid_count |-> -1,
     result |-> <<>>, engine |-> "", touched |-> touched]
OutOfBoundsIndexException(r, c) ==
    [outcome |-> "OutOfBoundsIndex", requested |-> r, valid_count |-> c,
     result |-> <<>>, engine |-> "", touched |-> TRUE]
Eff(res, t, l) == [res |-> res, table |-> t, links |-> l]
Same(res) == Eff(res, table, links)

(***************************************************************************)
(* The storage engine's ordered-sequence operations (0-based).             *)
(***************************************************************************)
InsertAt(s, i, v) == SubSeq(s, 1, i) \o <<v>> \o SubSeq(s, i + 1, Len(s))
RemoveAt(s, i) == SubSeq(s, 1, i) \o SubSeq(s, i + 2, Len(s))
SetAt(s, i, v) == [s EXCEPT ![i + 1] = v]
SwapAt(s, i, j) == [s EXCEPT ![i + 1] = s[j + 1], ![j + 1] = s[i + 1]]
MoveAt(s, from, to) == InsertAt(RemoveAt(s, from), to, s[from + 1])
RECURSIVE FindFrom(_, _, _)
FindFrom(s, v, i) ==
    IF i >= Len(s) THEN not_found
    ELSE IF s[i + 1] = v THEN i ELSE FindFrom(s, v, i + 1)
find_first(s, v) == FindFrom(s, v, 0)
find_first_null(s) == FindFrom(s, Null, 0)
RECURSIVE SeqSum(_)
SeqSum(s) == IF s = <<>> THEN 0 ELSE Head(s) + SeqSum(Tail(s))
Range(s) == {s[k] : k \in 1 .. Len(s)}
maximum_int(s) == CHOOSE m \in Range(s) : \A x \in Range(s) : x <= m
minimum_int(s) == CHOOSE m \in Range(s) : \A x \in Range(s) : m <= x

(***************************************************************************)
(* Faulty variants of the definitions below.   Each one is a slip the code  *)
(* could have made; the properties at the end of the module are shown to   *)
(* tell the variant from the code.                                         *)
(***************************************************************************)
\* verify_valid_row reporting size() as valid_count even for an insertion
verify_valid_row_reports_size(row_ndx, insertion) ==
    LET size == Len(table) IN
    IF row_ndx > size \/ (~insertion /\ row_ndx = size)
    THEN OutOfBoundsIndexException(row_ndx, size)
    ELSE Ok(<<>>, TRUE)

\* verify_valid_row building the exception with its two fields exchanged
verify_valid_row_fields_exchanged(row_ndx, insertion) ==
    LET size == Len(links) IN
    IF row_ndx > size \/ (~insertion /\ row_ndx = size)
    THEN OutOfBoundsIndexException(size + (IF insertion THEN 1 ELSE 0), row_ndx)
    ELSE Ok(<<>>, TRUE)

\* verify_in_transaction that forgets to ask is_in_transaction()
verify_in_transaction_unchecked(h, ub) ==
    IF ~HasRealm(h) THEN ub
    ELSE IF ~(HasStorage(h) /\ attached) THEN "Invalidated"
    ELSE "ok"

\* remove_all that removes the last row only
remove_all_removes_last(h, ub) ==
    IF ~HasRealm(h) THEN Same(Throw(ub, FALSE))
    ELSE IF ~(HasStorage(h) /\ attached) THEN Same(Throw("Invalidated", FALSE))
    ELSE IF ~inTx THEN Same(Throw("InvalidTransaction", FALSE))
    ELSE Eff(Ok(<<>>, TRUE), SubSeq(table, 1, Len(table) - 1), links)

\* find(row) that does not ask which table the row belongs to
find_row_of_any_table(h, row, ub) ==
    IF ~HasRealm(h) THEN Same(Throw(ub, FALSE))
    ELSE IF ~(HasStorage(h) /\ attached) THEN Same(Throw("Invalidated", FALSE))
    ELSE IF ~row[1] THEN Same(Ok(<<not_found>>, TRUE))
    ELSE Same(Ok(<<find_first(links, row[3])>>, TRUE))

\* insert checking the row before it checks the handle and the transaction
insert_checks_row_first(h, row_ndx, value, ub) ==
    LET size == Len(table) IN
    IF ~HasRealm(h) THEN Same(Throw(ub, FALSE))
    ELSE IF row_ndx > size THEN Same(OutOfBoundsIndexException(row_ndx, size + 1))
    ELSE IF ~(HasStorage(h) /\ attached) THEN Same(Throw("Invalidated", FALSE))
    ELSE IF ~inTx THEN Same(Throw("InvalidTransaction", FALSE))
    ELSE Eff(Ok(<<>>, TRUE),
             [k \in 1 .. size + 1 |->
                 IF k <= row_ndx THEN table[k]
                 ELSE IF k = row_ndx + 1 THEN value ELSE table[k - 1]],
             links)

\* insert that adds the empty row before it checks the index
insert_row_before_check(h, row_ndx, value, ub) ==
    LET size == Len(table) IN
    IF ~HasRealm(h) THEN Same(Throw(ub, FALSE))
    ELSE IF ~(HasStorage(h) /\ attached) THEN Same(Throw("Invalidated", FALSE))
    ELSE IF ~inTx THEN Same(Throw("InvalidTransaction", FALSE))
    ELSE IF row_ndx > size
    THEN Eff(OutOfBoundsIndexException(row_ndx, size + 1), Append(table, Default), links)
    ELSE Eff(Ok(<<>>, TRUE),
             [k \in 1 .. size + 1 |->
                 IF k <= row_ndx THEN table[k]
                 ELSE IF k = row_ndx + 1 THEN value ELSE table[k - 1]],
             links)

(***************************************************************************)
(* PrimitiveResults<T> built over a table (Mode::Table), as the list's     *)
(* aggregates build it.  None of max/min/sum/average validates the table   *)
(* before reading it.  For most element types only the generic aggregate   *)
(* templates exist.                                                        *)
(***************************************************************************)
\* Realm::verify_thread: a call from another context than the owner's throws
verify_thread == IF caller = "owner" THEN "ok" ELSE "IncorrectThread"

\* a call that reaches the storage from another context is not synchronised
\* with the owner: it completes, or it misuses the accessor
Raced(e, ub) == IF caller = "owner" THEN {e} ELSE {e, Eff(Throw(ub, TRUE), e.table, e.links)}

AggregateOps == {"max", "min", "sum", "average"}
\* the element types PrimitiveList<T> and PrimitiveResults<T> are instantiated with
ElementTypes ==
    {"bool", "int64_t", "float", "double", "StringData", "BinaryData", "Timestamp",
     "Optional<bool>", "Optional<int64_t>", "Optional<float>", "Optional<double>"}
OptionalTypes ==
    {"Optional<bool>", "Optional<int64_t>", "Optional<float>", "Optional<double>"}
\* name<T, T>(Table&) (average<double, T>(Table&)) has a specialisation;
\* every other instantiation is the generic template, which throws
Specialised(name, type) ==
    CASE name \in {"max", "min"} -> type \in {"int64_t", "float", "double", "Timestamp"}
      [] name \in {"sum", "average"} -> type \in {"int64_t", "float"}
TableAggregate(name, t) ==
    CASE name = "max" -> IF t = <<>> THEN <<Null>> ELSE <<maximum_int(t)>>
      [] name = "min" -> IF t = <<>> THEN <<Null>> ELSE <<minimum_int(t)>>
      [] name = "sum" -> <<SeqSum(t)>>
      [] name = "average" -> IF t = <<>> THEN <<Null>> ELSE <<SeqSum(t), Len(t)>>
PrimitiveResults_aggregate(name, ub) ==
    IF ~Specialised(name, T) THEN Throw("unsupported", FALSE)
    ELSE IF ~attached THEN Throw(ub, TRUE)
    ELSE Ok(TableAggregate(name, table), TRUE)

(***************************************************************************)
(* PrimitiveList<T>  (src/src/primitive_list.cpp)                          *)
(***************************************************************************)
PrimitiveList_verify_valid_row(row_ndx, insertion) ==
    LET size == Len(table) IN
    IF row_ndx > size \/ (~insertion /\ row_ndx = size)
    THEN OutOfBoundsIndexException(row_ndx, size + (IF insertion THEN 1 ELSE 0))
    ELSE Ok(<<>>, TRUE)

PrimitiveList_is_valid(h) == HasStorage(h) /\ attached

\* is_valid() calls m_realm->verify_thread() first: a null m_realm is UB
PrimitiveList_verify_attached(h, ub) ==
    IF ~HasRealm(h) THEN ub
    ELSE IF verify_thread # "ok" THEN verify_thread
    ELSE IF ~PrimitiveList_is_valid(h) THEN "Invalidated"
    ELSE "ok"

PrimitiveList_verify_in_transaction(h, ub) ==
    LET a == PrimitiveList_verify_attached(h, ub) IN
    IF a # "ok" THEN a
    ELSE IF ~inTx THEN "InvalidTransaction"
    ELSE "ok"

get(t, row) ==
    IF opt THEN (IF t[row + 1] = Null THEN Null ELSE t[row + 1])
    ELSE t[row + 1]

set(t, row, value) ==
    IF opt THEN (IF value # Null THEN SetAt(t, row, value) ELSE SetAt(t, row, Null))
    ELSE SetAt(t, row, value)

is_null(value) == opt /\ value = Null

PrimitiveList_size(h, ub) ==
    LET a == PrimitiveList_verify_attached(h, ub) IN
    IF a # "ok" THEN Same(Throw(a, FALSE))
    ELSE Same(Ok(<<Len(table)>>, TRUE))

PrimitiveList_get(h, row_ndx, ub) ==
    LET a == PrimitiveList_verify_attached(h, ub)
        r == PrimitiveList_verify_valid_row(row_ndx, FALSE) IN
    IF a # "ok" THEN Same(Throw(a, FALSE))
    ELSE IF r.outcome # "ok" THEN Same(r)
    ELSE Same(Ok(<<get(table, row_ndx)>>, TRUE))

\* noexcept, no check at all: a row past the end is a misuse of the table
PrimitiveList_get_unchecked(h, row_ndx, ub) ==
    IF ~HasStorage(h) \/ ~attached \/ row_ndx >= Len(table) THEN Same(Throw(ub, TRUE))
    ELSE Same(Ok(<<get(table, row_ndx)>>, TRUE))

PrimitiveList_find(h, value, ub) ==
    LET a == PrimitiveList_verify_attached(h, ub) IN
    IF a # "ok" THEN Same(Throw(a, FALSE))
    ELSE Same(Ok(<<IF is_null(value) THEN find_first_null(table)
                   ELSE find_first(table, value)>>, TRUE))

PrimitiveList_add(h, value, ub) ==
    LET a == PrimitiveList_verify_in_transaction(h, ub) IN
    IF a # "ok" THEN Same(Throw(a, FALSE))
    ELSE Eff(Ok(<<>>, TRUE),
             SetAt(Append(table, Default), Len(table), value), links)

PrimitiveList_insert(h, row_ndx, value, ub) ==
    LET a == PrimitiveList_verify_in_transaction(h, ub)
        r == PrimitiveList_verify_valid_row(row_ndx, TRUE) IN
    IF a # "ok" THEN Same(Throw(a, FALSE))
    ELSE IF r.outcome # "ok" THEN Same(r)
    ELSE Eff(Ok(<<>>, TRUE),
             SetAt(InsertAt(table, row_ndx, Default), row_ndx, value), links)

\* the call to m_table->move is commented out in the source
PrimitiveList_move(h, source_ndx, dest_ndx, ub) ==
    LET a == PrimitiveList_verify_in_transaction(h, ub)
        r1 == PrimitiveList_verify_valid_row(source_ndx, FALSE)
        r2 == PrimitiveList_verify_valid_row(dest_ndx, FALSE) IN
    IF a # "ok" THEN Same(Throw(a, FALSE))
    ELSE IF r1.outcome # "ok" THEN Same(r1)
    ELSE IF r2.outcome # "ok" THEN Same(r2)
    ELSE Same(Ok(<<>>, TRUE))

PrimitiveList_remove(h, row_ndx, ub) ==
    LET a == PrimitiveList_verify_in_transaction(h, ub)
        r == PrimitiveList_verify_valid_row(row_ndx, FALSE) IN
    IF a # "ok" THEN Same(Throw(a, FALSE))
    ELSE IF r.outcome # "ok" THEN Same(r)
    ELSE Eff(Ok(<<>>, TRUE), RemoveAt(table, row_ndx), links)

PrimitiveList_remove_all(h, ub) ==
    LET a == PrimitiveList_verify_in_transaction(h, ub) IN
    IF a # "ok" THEN Same(Throw(a, FALSE))
    ELSE Eff(Ok(<<>>, TRUE), <<>>, links)

PrimitiveList_set(h, row_ndx, value, ub) ==
    LET a == PrimitiveList_verify_in_transaction(h, ub)
        r == PrimitiveList_verify_valid_row(row_ndx, FALSE) IN
    IF a # "ok" THEN Same(Throw(a, FALSE))
    ELSE IF r.outcome # "ok" THEN Same(r)
    ELSE Eff(Ok(<<>>, TRUE), set(table, row_ndx, value), links)

PrimitiveList_swap(h, ndx1, ndx2, ub) ==
    LET a == PrimitiveList_verify_in_transaction(h, ub)
        r1 == PrimitiveList_verify_valid_row(ndx1, FALSE)
        r2 == PrimitiveList_verify_valid_row(ndx2, FALSE) IN
    IF a # "ok" THEN Same(Throw(a, FALSE))
    ELSE IF r1.outcome # "ok" THEN Same(r1)
    ELSE IF r2.outcome # "ok" THEN Same(r2)
    ELSE Eff(Ok(<<>>, TRUE), SwapAt(table, ndx1, ndx2), links)

\* get_query() re-validates attachment before m_table->where()
PrimitiveList_sort(h, ascending, ub) ==
    LET a == PrimitiveList_verify_attached(h, ub) IN
    IF a # "ok" THEN Same(Throw(a, FALSE))
    ELSE Same(Derived(IF ascending THEN "Query.Ascending" ELSE "Query.Descending"))

PrimitiveList_filter(h, ub) ==
    LET a == PrimitiveList_verify_attached(h, ub) IN
    IF a # "ok" THEN Same(Throw(a, FALSE))
    ELSE Same(Derived("Query.None"))

\* PrimitiveResults<T>::snapshot() const& and && call each other without end
PrimitiveResults_snapshot == Throw("NoReturn", TRUE)

PrimitiveList_snapshot(h, ub) ==
    LET a == PrimitiveList_verify_attached(h, ub) IN
    IF a # "ok" THEN Same(Throw(a, FALSE))
    ELSE Same(PrimitiveResults_snapshot)

\* max, min, sum, average: PrimitiveResults<T>(m_realm, *m_table).name()
PrimitiveList_aggregate(h, name, ub) ==
    IF ~HasStorage(h) THEN Same(Throw(ub, TRUE))
    ELSE Same(PrimitiveResults_aggregate(name, ub))

PrimitiveList_operator_eq(lft, rgt) == storage_ptr(lft) = storage_ptr(rgt)

PrimitiveList_add_notification_callback(h, ub) ==
    LET a == PrimitiveList_verify_attached(h, ub) IN
    IF a # "ok" THEN Throw(a, FALSE)
    ELSE Ok(<<>>, TRUE)


(***************************************************************************)
(* List  (src/src/list.cpp).  m_table is the link view's target table, and *)
(* the validity, size and bounds checks all read the link view.            *)
(***************************************************************************)
List_verify_valid_row(row_ndx, insertion) ==
    LET size == Len(links) IN
    IF row_ndx > size \/ (~insertion /\ row_ndx = size)
    THEN OutOfBoundsIndexException(row_ndx, size + (IF insertion THEN 1 ELSE 0))
    ELSE Ok(<<>>, TRUE)

List_is_valid(h) == HasStorage(h) /\ attached

List_verify_attached(h, ub) ==
    IF ~HasRealm(h) THEN ub
    ELSE IF verify_thread # "ok" THEN verify_thread
    ELSE IF ~List_is_valid(h) THEN "Invalidated"
    ELSE "ok"

List_verify_in_transaction(h, ub) ==
    LET a == List_verify_attached(h, ub) IN
    IF a # "ok" THEN a
    ELSE IF ~inTx THEN "InvalidTransaction"
    ELSE "ok"

to_table_ndx(row) == links[row + 1]

list_get(t, row) ==
    IF opt THEN (IF t[row + 1] = Null THEN Null ELSE t[row + 1])
    ELSE t[row + 1]

list_set(t, row, value) ==
    IF opt THEN (IF value # Null THEN SetAt(t, row, value) ELSE SetAt(t, row, Null))
    ELSE SetAt(t, row, value)

list_is_null(value) == opt /\ value = Null

\* a row inserted into the target table at r moves the rows from r on up by one
LinksAfterRowInsert(l, r) == [k \in 1 .. Len(l) |-> IF l[k] >= r THEN l[k] + 1 ELSE l[k]]

\* LinkView::remove_all_target_rows: batch erase, each row by move_last_over
move_last_over(t, r) ==
    IF r = Len(t) - 1 THEN SubSeq(t, 1, Len(t) - 1)
    ELSE SubSeq(SetAt(t, r, t[Len(t)]), 1, Len(t) - 1)
RECURSIVE batch_erase_rows(_, _)
batch_erase_rows(t, rows) ==
    IF rows = {} THEN t
    ELSE LET r == CHOOSE x \in rows : \A y \in rows : y <= x IN
         batch_erase_rows(move_last_over(t, r), rows \ {r})

List_size(h, ub) ==
    LET a == List_verify_attached(h, ub) IN
    IF a # "ok" THEN Same(Throw(a, FALSE))
    ELSE Same(Ok(<<Len(links)>>, TRUE))

\* List::get<T>
List_get(h, row_ndx, ub) ==
    LET a == List_verify_attached(h, ub)
        r == List_verify_valid_row(row_ndx, FALSE) IN
    IF a # "ok" THEN Same(Throw(a, FALSE))
    ELSE IF r.outcome # "ok" THEN Same(r)
    ELSE Same(Ok(<<list_get(table, to_table_ndx(row_ndx))>>, TRUE))

\* List::get<RowExpr>: the target row, given by its index
\* noexcept, no check at all: m_link_view->get(row_ndx).get_index()
List_get_unchecked(h, row_ndx, ub) ==
    IF ~HasStorage(h) \/ ~attached \/ row_ndx >= Len(links) THEN Same(Throw(ub, TRUE))
    ELSE Same(Ok(<<to_table_ndx(row_ndx)>>, TRUE))

List_get_row(h, row_ndx, ub) ==
    LET a == List_verify_attached(h, ub)
        r == List_verify_valid_row(row_ndx, FALSE) IN
    IF a # "ok" THEN Same(Throw(a, FALSE))
    ELSE IF r.outcome # "ok" THEN Same(r)
    ELSE Same(Ok(<<to_table_ndx(row_ndx)>>, TRUE))

\* List::find<T>: searches column 0 of m_table
List_find(h, value, ub) ==
    LET a == List_verify_attached(h, ub) IN
    IF a # "ok" THEN Same(Throw(a, FALSE))
    ELSE Same(Ok(<<IF list_is_null(value) THEN find_first_null(table)
                   ELSE find_first(table, value)>>, TRUE))

\* List::find(ConstRow const&): row = <<attached, in the target table, index>>
List_find_row(h, row, ub) ==
    LET a == List_verify_attached(h, ub) IN
    IF a # "ok" THEN Same(Throw(a, FALSE))
    ELSE IF ~row[1] \/ ~row[2] THEN Same(Ok(<<not_found>>, TRUE))
    ELSE Same(Ok(<<find_first(links, row[3])>>, TRUE))

\* List::add<T>: adds a row to m_table, not a link
List_add(h, value, ub) ==
    LET a == List_verify_in_transaction(h, ub) IN
    IF a # "ok" THEN Same(Throw(a, FALSE))
    ELSE Eff(Ok(<<>>, TRUE),
             list_set(Append(table, Default), Len(table), value), links)

\* List::add(size_t target_row_ndx)
List_add_link(h, target_row_ndx, ub) ==
    LET a == List_verify_in_transaction(h, ub) IN
    IF a # "ok" THEN Same(Throw(a, FALSE))
    ELSE Eff(Ok(<<>>, TRUE), table, Append(links, target_row_ndx))

\* List::add(int): verifies, then add(size_t) as m_link_view is set
List_add_int(h, value, ub) ==
    LET a == List_verify_in_transaction(h, ub) IN
    IF a # "ok" THEN Same(Throw(a, FALSE))
    ELSE List_add_link(h, value, ub)

\* List::insert<T>: the index is checked against the link view and then
\* used as a row index of m_table
List_insert(h, row_ndx, value, ub) ==
    LET a == List_verify_in_transaction(h, ub)
        r == List_verify_valid_row(row_ndx, TRUE) IN
    IF a # "ok" THEN Same(Throw(a, FALSE))
    ELSE IF r.outcome # "ok" THEN Same(r)
    ELSE IF row_ndx > Len(table) THEN Same(Throw(ub, TRUE))
    ELSE Eff(Ok(<<>>, TRUE),
             list_set(InsertAt(table, row_ndx, Default), row_ndx, value),
             LinksAfterRowInsert(links, row_ndx))

\* List::insert(size_t row_ndx, size_t target_row_ndx)
List_insert_link(h, row_ndx, target_row_ndx, ub) ==
    LET a == List_verify_in_transaction(h, ub)
        r == List_verify_valid_row(row_ndx, TRUE) IN
    IF a # "ok" THEN Same(Throw(a, FALSE))
    ELSE IF r.outcome # "ok" THEN Same(r)
    ELSE Eff(Ok(<<>>, TRUE), table, InsertAt(links, row_ndx, target_row_ndx))

List_move(h, source_ndx, dest_ndx, ub) ==
    LET a == List_verify_in_transaction(h, ub)
        r1 == List_verify_valid_row(source_ndx, FALSE)
        r2 == List_verify_valid_row(dest_ndx, FALSE) IN
    IF a # "ok" THEN Same(Throw(a, FALSE))
    ELSE IF r1.outcome # "ok" THEN Same(r1)
    ELSE IF r2.outcome # "ok" THEN Same(r2)
    ELSE Eff(Ok(<<>>, TRUE), table, MoveAt(links, source_ndx, dest_ndx))

List_remove(h, row_ndx, ub) ==
    LET a == List_verify_in_transaction(h, ub)
        r == List_verify_valid_row(row_ndx, FALSE) IN
    IF a # "ok" THEN Same(Throw(a, FALSE))
    ELSE IF r.outcome # "ok" THEN Same(r)
    ELSE Eff(Ok(<<>>, TRUE), table, RemoveAt(links, row_ndx))

List_remove_all(h, ub) ==
    LET a == List_verify_in_transaction(h, ub) IN
    IF a # "ok" THEN Same(Throw(a, FALSE))
    ELSE Eff(Ok(<<>>, TRUE), table, <<>>)

\* List::set<T>: writes row row_ndx of m_table, not row to_table_ndx(row_ndx)
List_set(h, row_ndx, value, ub) ==
    LET a == List_verify_in_transaction(h, ub)
        r == List_verify_valid_row(row_ndx, FALSE) IN
    IF a # "ok" THEN Same(Throw(a, FALSE))
    ELSE IF r.outcome # "ok" THEN Same(r)
    ELSE IF row_ndx >= Len(table) THEN Same(Throw(ub, TRUE))
    ELSE Eff(Ok(<<>>, TRUE), list_set(table, row_ndx, value), links)

\* List::set(size_t row_ndx, size_t target_row_ndx)
List_set_link(h, row_ndx, target_row_ndx, ub) ==
    LET a == List_verify_in_transaction(h, ub)
        r == List_verify_valid_row(row_ndx, FALSE) IN
    IF a # "ok" THEN Same(Throw(a, FALSE))
    ELSE IF r.outcome # "ok" THEN Same(r)
    ELSE Eff(Ok(<<>>, TRUE), table, SetAt(links, row_ndx, target_row_ndx))

List_swap(h, ndx1, ndx2, ub) ==
    LET a == List_verify_in_transaction(h, ub)
        r1 == List_verify_valid_row(ndx1, FALSE)
        r2 == List_verify_valid_row(ndx2, FALSE) IN
    IF a # "ok" THEN Same(Throw(a, FALSE))
    ELSE IF r1.outcome # "ok" THEN Same(r1)
    ELSE IF r2.outcome # "ok" THEN Same(r2)
    ELSE Eff(Ok(<<>>, TRUE), table, SwapAt(links, ndx1, ndx2))

List_delete_all(h, ub) ==
    LET a == List_verify_in_transaction(h, ub) IN
    IF a # "ok" THEN Same(Throw(a, FALSE))
    ELSE Eff(Ok(<<>>, TRUE), batch_erase_rows(table, Range(links)), <<>>)

List_sort(h, ub) ==
    LET a == List_verify_attached(h, ub) IN
    IF a # "ok" THEN Same(Throw(a, FALSE))
    ELSE Same(Derived("Results.sorted"))

List_filter(h, ub) ==
    LET a == List_verify_attached(h, ub) IN
    IF a # "ok" THEN Same(Throw(a, FALSE))
    ELSE Same(Derived("Results.filtered"))

List_snapshot(h, ub) ==
    LET a == List_verify_attached(h, ub) IN
    IF a # "ok" THEN Same(Throw(a, FALSE))
    ELSE Same(Derived("Results.snapshot"))

\* List::max<T> etc.: Results(m_realm, *m_table).name<T>(col), over the whole
\* target table, which stays attached when the link view is detached
Results_aggregate(name) ==
    LET nn == SelectSeq(table, LAMBDA x : x # Null) IN
    IF opt /\ nn = <<>> THEN Ok(<<Null>>, TRUE)
    ELSE Ok(TableAggregate(name, nn), TRUE)

List_aggregate(h, name, ub) ==
    IF ~HasStorage(h) THEN Same(Throw(ub, TRUE))
    ELSE Same(Results_aggregate(name))

List_operator_eq(lft, rgt) == storage_ptr(lft) = storage_ptr(rgt)

List_add_notification_callback(h, ub) ==
    LET a == List_verify_attached(h, ub) IN
    IF a # "ok" THEN Throw(a, FALSE)
    ELSE Ok(<<>>, TRUE)

(***************************************************************************)
(* PrimitiveResults<T>  (src/src/primitive_results.cpp).  The base class,  *)
(* ResultsBase, is outside src/: the mode, the stored query, the cached    *)
(* table view and its refresh follow the specification.  A query is the    *)
(* set of values it accepts; a table view is a sequence of row indices.    *)
(* m_sort is a member of PrimitiveResults alone: every constructor hands   *)
(* ResultsBase the query or the view without it.                           *)
(***************************************************************************)
Sorts == {"None", "Ascending", "Descending"}
where == Values \cup {Null}
and_query(q1, q2) == q1 \cap q2

\* PrimitiveResults(): backed by nothing
PrimitiveResults_default ==
    [mode |-> "Empty", query |-> where, m_sort |-> "None", distinct |-> FALSE,
     auto_update |-> TRUE, has_tv |-> FALSE, tv |-> <<>>, tv_distinct |-> FALSE,
     seen |-> <<>>]

\* PrimitiveResults(r, table): ResultsBase(r, table)
PrimitiveResults_of_table == [PrimitiveResults_default EXCEPT !.mode = "Table"]

\* PrimitiveResults(r, q, s, d): ResultsBase(r, q), m_sort(s); d is not used
PrimitiveResults_of_query(q, s, d) ==
    [PrimitiveResults_default EXCEPT !.mode = "Query", !.query = q, !.m_sort = s]

\* PrimitiveResults(r, tv, s, d): ResultsBase(r, tv), m_sort(s); d is not used.
\* The view handed over carries its own distinct condition, which is all
\* ResultsBase can know of it.
PrimitiveResults_of_tableview(tv, s, d) ==
    [PrimitiveResults_default EXCEPT
        !.mode = "TableView", !.query = tv.query, !.m_sort = s, !.has_tv = TRUE,
        !.tv = tv.tv, !.tv_distinct = tv.tv_distinct, !.distinct = tv.tv_distinct,
        !.seen = tv.seen]

\* is_distinct(): (bool)ResultsBase::get_distinct()
is_distinct(e) == e.distinct

\* Query::find_all
find_all(q, t) == SelectSeq([k \in 1 .. Len(t) |-> k - 1], LAMBDA r : t[r + 1] \in q)

\* faulty: a distinct that removes nothing
DistinctRows_keeps_all(rows, t) == rows

\* TableView::distinct(0): of rows with equal values the first stays
DistinctRows(rows, t) ==
    LET Keep(k) == \A j \in 1 .. (k - 1) : t[rows[j] + 1] # t[rows[k] + 1]
        Pick[k \in 1 .. (Len(rows) + 1)] ==
            IF k > Len(rows) THEN <<>>
            ELSE (IF Keep(k) THEN <<rows[k]>> ELSE <<>>) \o Pick[k + 1]
    IN Pick[1]

Materialize(e, t) ==
    IF e.tv_distinct THEN DistinctRows(find_all(e.query, t), t) ELSE find_all(e.query, t)

\* ResultsBase::update_tableview: run the query on first use, and bring an
\* auto-updating view up to date with the table
update_tableview(e) ==
    IF e.mode \in {"Query", "TableView"}
       /\ (~e.has_tv \/ (e.auto_update /\ e.seen # table))
    THEN [e EXCEPT !.has_tv = TRUE, !.tv = Materialize(e, table), !.seen = table]
    ELSE e

\* ResultsBase::validate_read: the thread, then the table
validate_read(e) ==
    IF e.mode = "Empty" THEN "ok"
    ELSE IF verify_thread # "ok" THEN verify_thread
    ELSE IF ~attached THEN "Invalidated"
    ELSE "ok"

\* the values an engine shows, in the order of its view
ViewOf(e) ==
    CASE e.mode = "Empty" -> <<>>
      [] e.mode = "Table" -> table
      [] OTHER -> [k \in 1 .. Len(e.tv) |-> get(table, e.tv[k])]

\* what a call on an engine produces, and the engine after the call
Answer(res, e) == [res |-> res, results |-> e]
\* a call returning a new engine
Returned(engine) == [Derived("PrimitiveResults") EXCEPT !.result = <<engine>>]

\* faulty: get reporting the size of the table for an index outside the view
PrimitiveResults_get_reports_table_size(e, row_ndx) ==
    LET v == validate_read(e)
        u == update_tableview(e) IN
    IF v # "ok" THEN Answer(Throw(v, FALSE), e)
    ELSE IF e.mode = "Empty"
    THEN Answer([OutOfBoundsIndexException(row_ndx, 0) EXCEPT !.touched = FALSE], e)
    ELSE IF e.mode = "Table" \/ row_ndx >= Len(u.tv)
    THEN (IF e.mode = "Table" /\ row_ndx < Len(table)
          THEN Answer(Ok(<<get(table, row_ndx)>>, TRUE), e)
          ELSE Answer(OutOfBoundsIndexException(row_ndx, Len(table)), u))
    ELSE Answer(Ok(<<get(table, u.tv[row_ndx + 1])>>, TRUE), u)

\* faulty: first and last reading the ends of the table in every mode
PrimitiveResults_first_last_of_table(e, name) ==
    LET v == validate_read(e) IN
    IF v # "ok" THEN Answer(Throw(v, FALSE), e)
    ELSE IF e.mode = "Empty" \/ Len(table) = 0 THEN Answer(Ok(<<Null>>, FALSE), e)
    ELSE Answer(Ok(<<get(table, IF name = "first" THEN 0 ELSE Len(table) - 1)>>, TRUE),
                update_tableview(e))

\* faulty: a sort that starts again from the whole table
PrimitiveResults_sort_of_whole_table(e, sort) ==
    Answer(Returned(PrimitiveResults_of_query(where, sort, e.distinct)), e)

PrimitiveResults_get(e, row_ndx) ==
    LET v == validate_read(e)
        u == update_tableview(e) IN
    IF v # "ok" THEN Answer(Throw(v, FALSE), e)
    ELSE IF e.mode = "Empty"
    THEN Answer([OutOfBoundsIndexException(row_ndx, 0) EXCEPT !.touched = FALSE], e)
    ELSE IF e.mode = "Table"
    THEN (IF row_ndx < Len(table) THEN Answer(Ok(<<get(table, row_ndx)>>, TRUE), e)
          ELSE Answer(OutOfBoundsIndexException(row_ndx, Len(table)), e))
    ELSE IF row_ndx >= Len(u.tv)
    THEN Answer(OutOfBoundsIndexException(row_ndx, Len(u.tv)), u)
    ELSE IF ~u.auto_update /\ u.tv[row_ndx + 1] >= Len(table)
    THEN Answer(Ok(<<IF opt THEN Null ELSE Default>>, TRUE), u)
    ELSE Answer(Ok(<<get(table, u.tv[row_ndx + 1])>>, TRUE), u)

\* first() and last(): position 0 or size() - 1, none on zero rows
PrimitiveResults_first_last(e, name) ==
    LET v == validate_read(e)
        u == update_tableview(e)
        At(n) == IF name = "first" THEN 0 ELSE n - 1 IN
    IF v # "ok" THEN Answer(Throw(v, FALSE), e)
    ELSE IF e.mode = "Empty" THEN Answer(Ok(<<Null>>, FALSE), e)
    ELSE IF e.mode = "Table"
    THEN (IF Len(table) = 0 THEN Answer(Ok(<<Null>>, TRUE), e)
          ELSE Answer(Ok(<<get(table, At(Len(table)))>>, TRUE), e))
    ELSE IF Len(u.tv) = 0 THEN Answer(Ok(<<Null>>, TRUE), u)
    ELSE IF ~u.auto_update /\ u.tv[At(Len(u.tv)) + 1] >= Len(table)
    THEN Answer(Ok(<<Null>>, TRUE), u)
    ELSE Answer(Ok(<<get(table, u.tv[At(Len(u.tv)) + 1])>>, TRUE), u)

\* find_first(TableView&, value): a null is searched by a query on the
\* parent table restricted to the view, whose find() names a table row
find_first_in_view(e, value) ==
    IF is_null(value)
    THEN (LET nulls == {r \in Range(e.tv) : table[r + 1] = Null} IN
          IF nulls = {} THEN not_found
          ELSE CHOOSE r \in nulls : \A o \in nulls : r <= o)
    ELSE find_first(ViewOf(e), value)

\* faulty: index_of searching the view as it was last materialized
PrimitiveResults_index_of_without_update(e, value) ==
    LET v == validate_read(e)
        u == IF e.has_tv THEN e ELSE update_tableview(e) IN
    IF v # "ok" THEN Answer(Throw(v, FALSE), e)
    ELSE IF e.mode = "Empty" THEN Answer(Ok(<<not_found>>, FALSE), e)
    ELSE IF e.mode = "Table"
    THEN Answer(Ok(<<find_first(table, value)>>, TRUE), e)
    ELSE Answer(Ok(<<find_first_in_view(u, value)>>, TRUE), u)

PrimitiveResults_index_of(e, value) ==
    LET v == validate_read(e)
        u == update_tableview(e) IN
    IF v # "ok" THEN Answer(Throw(v, FALSE), e)
    ELSE IF e.mode = "Empty" THEN Answer(Ok(<<not_found>>, FALSE), e)
    ELSE IF e.mode = "Table"
    THEN Answer(Ok(<<IF is_null(value) THEN find_first_null(table)
                     ELSE find_first(table, value)>>, TRUE), e)
    ELSE Answer(Ok(<<find_first_in_view(u, value)>>, TRUE), u)

\* the specialisations of maximum/minimum/sum/average for TableView
SpecialisedView(name, type) ==
    CASE name \in {"max", "min"} -> type \in {"int64_t", "float", "double", "Timestamp"}
      [] name \in {"sum", "average"} -> type \in {"int64_t", "double"}

\* faulty: the sum of an engine backed by nothing is 0
PrimitiveResults_aggregate_sum_of_nothing(e, name, ub) ==
    LET u == update_tableview(e) IN
    IF e.mode = "Empty"
    THEN Answer(Ok(IF name = "sum" THEN <<0>> ELSE <<Null>>, FALSE), e)
    ELSE IF e.mode = "Table" THEN Answer(PrimitiveResults_aggregate(name, ub), e)
    ELSE IF ~attached THEN Answer(Throw(ub, TRUE), e)
    ELSE IF ~SpecialisedView(name, T) THEN Answer(Throw("unsupported", TRUE), u)
    ELSE Answer(Ok(TableAggregate(name, ViewOf(u)), TRUE), u)

\* max, min, sum, average: no validate_read
PrimitiveResults_aggregate_in(e, name, ub) ==
    LET u == update_tableview(e) IN
    IF e.mode = "Empty" THEN Answer(Ok(<<Null>>, FALSE), e)
    ELSE IF e.mode = "Table" THEN Answer(PrimitiveResults_aggregate(name, ub), e)
    ELSE IF ~attached THEN Answer(Throw(ub, TRUE), e)
    ELSE IF ~SpecialisedView(name, T) THEN Answer(Throw("unsupported", TRUE), u)
    ELSE Answer(Ok(TableAggregate(name, ViewOf(u)), TRUE), u)

\* ResultsBase::get_query: the stored query, or the whole table
get_query(e) == IF e.mode \in {"Query", "TableView"} THEN e.query ELSE where

PrimitiveResults_sort(e, sort) ==
    Answer(Returned(PrimitiveResults_of_query(get_query(e), sort, is_distinct(e))), e)

PrimitiveResults_filter(e, q) ==
    Answer(Returned(PrimitiveResults_of_query(and_query(get_query(e), q), e.m_sort,
                                              is_distinct(e))), e)

\* ResultsBase::get_tableview: the view brought up to date, or the whole table
get_tableview(e) ==
    update_tableview([e EXCEPT !.mode = IF e.mode = "Table" THEN "Query" ELSE e.mode,
                               !.query = get_query(e)])

\* get_tableview(), tv.distinct(0), PrimitiveResults(realm, tv, get_sort(), true)
PrimitiveResults_distinct(e) ==
    LET v == validate_read(e)
        tv == get_tableview(e) IN
    IF v # "ok" THEN Answer(Throw(v, FALSE), e)
    ELSE Answer(Returned(PrimitiveResults_of_tableview(
                    [tv EXCEPT !.tv = DistinctRows(tv.tv, table), !.tv_distinct = TRUE],
                    e.m_sort, TRUE)),
                update_tableview(e))

\* snapshot() const&: validate_read(); return PrimitiveResults(*this).snapshot();
\* snapshot() &&: snapshot(); return std::move(*this);
\* in the second, *this is an lvalue, so the call is to the first again
RECURSIVE snapshot_lvalue(_, _), snapshot_rvalue(_, _)
snapshot_lvalue(e, depth) ==
    LET v == validate_read(e) IN
    IF v # "ok" THEN Answer(Throw(v, FALSE), e)
    ELSE IF depth >= MaxStack THEN Answer(PrimitiveResults_snapshot, e)
    ELSE snapshot_rvalue(e, depth + 1)
snapshot_rvalue(e, depth) ==
    LET inner == IF depth >= MaxStack THEN Answer(PrimitiveResults_snapshot, e)
                 ELSE snapshot_lvalue(e, depth + 1) IN
    IF inner.res.outcome # "ok" THEN inner
    ELSE Answer(Returned(e), e)

(***************************************************************************)
(* Permissions  (src/src/sync/sync_permission.cpp).  SyncSession,          *)
(* EventLoopSignal, Results::async and Object::add_notification_block are  *)
(* outside src/: the download-completion handler runs at most once, the    *)
(* signal's function runs on the owning event loop after notify(), and a   *)
(* notification block is called while its token lives, as the              *)
(* specification has it.  An optional property is "none", "true" or        *)
(* "false"; statusCode is Null until the server sets it.                   *)
(***************************************************************************)
AccessLevels == {"None", "Read", "Write", "Admin"}
AnyBool == {"none", "true", "false"}
StatusCodes == {0, 1}

NoPermissionCalls ==
    [get |-> "idle",        \* get_permissions: idle, waiting (for the download),
                            \* notified (signal->notify() called), registered
                            \* (results_box holds the token), released
     size |-> 0,            \* rows of the Permission table
     calls |-> <<>>,        \* invocations of get_permissions' callback
     set |-> "idle",        \* set_permission: idle, registered (object_box
                            \* holds the token), released
     object |-> [mayRead |-> "none", mayWrite |-> "none", mayManage |-> "none"],
     statusCode |-> Null,
     changes |-> <<>>,      \* invocations of set_permission's callback
     delivered |-> 0,       \* notifications delivered so far
     notification |-> [to |-> "", ex |-> FALSE]]   \* the last one delivered

\* faulty: the lowest flag set decides
extract_access_level_lowest_first(permission) ==
    IF permission.mayRead = "true" THEN "Read"
    ELSE IF permission.mayWrite = "true" THEN "Write"
    ELSE IF permission.mayManage = "true" THEN "Admin"
    ELSE "None"

extract_access_level(permission) ==
    IF permission.mayManage = "true" THEN "Admin"
    ELSE IF permission.mayWrite = "true" THEN "Write"
    ELSE IF permission.mayRead = "true" THEN "Read"
    ELSE "None"

\* the flags of the PermissionChange object set_permission creates
AnyOf(b) == IF b THEN "true" ELSE "false"
PermissionChange(access) ==
    [mayRead |-> AnyOf(access # "None"),
     mayWrite |-> AnyOf(access = "Write" \/ access = "Admin"),
     mayManage |-> AnyOf(access = "Admin")]

\* faulty: the results callback keeping its box after an error
async_keeps_box_on_error(s, ex) ==
    IF ex THEN [s EXCEPT !.calls = Append(@, [ex |-> TRUE, size |-> 0])]
    ELSE IF s.size > 0
    THEN [s EXCEPT !.calls = Append(@, [ex |-> FALSE, size |-> s.size]),
                   !.get = "released"]
    ELSE s

\* faulty: the results callback answering as soon as it is notified
async_answers_empty(s, ex) ==
    IF ex THEN [s EXCEPT !.calls = Append(@, [ex |-> TRUE, size |-> 0]),
                         !.get = "released"]
    ELSE [s EXCEPT !.calls = Append(@, [ex |-> FALSE, size |-> s.size]),
                   !.get = "released"]

\* the lambda `async` of get_permissions: callback(nullptr, ex) or
\* callback(results, nullptr), then results_box.reset(), which drops the
\* last reference to the box and with it the token
async(s, ex) ==
    IF ex THEN [s EXCEPT !.calls = Append(@, [ex |-> TRUE, size |-> 0]),
                         !.get = "released"]
    ELSE IF s.size > 0
    THEN [s EXCEPT !.calls = Append(@, [ex |-> FALSE, size |-> s.size]),
                   !.get = "released"]
    ELSE s

\* faulty: the change callback keeping its box once the status is known
block_keeps_box(s, ex) ==
    IF ex THEN [s EXCEPT !.changes = Append(@, [exception |-> "error", code |-> 0]),
                         !.set = "released"]
    ELSE IF s.statusCode # Null
    THEN [s EXCEPT !.changes =
                       Append(@, IF s.statusCode # 0
                                 THEN [exception |-> "PermissionChangeException",
                                       code |-> s.statusCode]
                                 ELSE [exception |-> "nullptr", code |-> 0])]
    ELSE s

\* the lambda `block` of set_permission
block(s, ex) ==
    IF ex THEN [s EXCEPT !.changes = Append(@, [exception |-> "error", code |-> 0]),
                         !.set = "released"]
    ELSE IF s.statusCode # Null
    THEN [s EXCEPT !.changes =
                       Append(@, IF s.statusCode # 0
                                 THEN [exception |-> "PermissionChangeException",
                                       code |-> s.statusCode]
                                 ELSE [exception |-> "nullptr", code |-> 0]),
                   !.set = "released"]
    ELSE s

\* set_permission: the object is written and committed, the block registered
Permissions_set_permission(s, access) ==
    [s EXCEPT !.object = PermissionChange(access), !.statusCode = Null,
              !.set = "registered"]

\* delete_permission: set_permission with access None
Permissions_delete_permission(s) == Permissions_set_permission(s, "None")

(***************************************************************************)
(* The state machine.                                                      *)
(***************************************************************************)
Init ==
    /\ cls \in {"PrimitiveList", "List"}
    /\ opt \in BOOLEAN
    /\ T = (IF opt THEN "Optional<int64_t>" ELSE "int64_t")
    /\ table = <<>>
    /\ links = <<>>
    /\ attached = TRUE
    /\ inTx = FALSE
    /\ m_notifier = {}
    /\ seenInvalidated = FALSE
    /\ caller = "owner"
    /\ results = PrimitiveResults_default
    /\ sync = NoPermissionCalls
    /\ callbacks = {} /\ tokens = {} /\ dropped = {} /\ prev = <<>>
    /\ last = [op |-> "construct", h |-> "h", args |-> <<>>, bad_index |-> FALSE,
               pre_table |-> <<>>, pre_links |-> <<>>,
               pre_results |-> results] @@ Ok(<<>>, FALSE)

\* what undefined behaviour may produce in a call on h: a call through the
\* null m_realm of "dflt", or (Misuse) a call that may misuse an accessor
UBFor(h) == IF HasRealm(h) THEN {"Crash"} ELSE NullDerefOutcomes
Misuse(h) == IF HasRealm(h) THEN MisuseOutcomes ELSE NullDerefOutcomes
\* the arguments tried: "dflt" fails before it looks at any
IndicesFor(h) == IF HasStorage(h) THEN Indices ELSE {0}
ValuesFor(h) == IF HasStorage(h) THEN Values ELSE {1}
SearchValuesFor(h) ==
    IF ~HasStorage(h) THEN {1} ELSE IF opt THEN SearchValues ELSE SearchValues \ {Null}

Record(op, h, args, bad, res) ==
    [op |-> op, h |-> h, args |-> IF res.outcome = "ok" THEN args ELSE <<>>,
     bad_index |-> bad, pre_table |-> table, pre_links |-> links, pre_results |-> results] @@ res

Seen(h, res) == seenInvalidated \/ (h = "h" /\ res.outcome = "Invalidated")

Call(op, h, args, bad, e) ==
    /\ table' = e.table
    /\ links' = e.links
    /\ last' = Record(op, h, args, bad, e.res)
    /\ seenInvalidated' = Seen(h, e.res)
    /\ UNCHANGED <<cls, opt, T, sync, caller, results, attached, inTx, m_notifier>>
    /\ UNCHANGED <<callbacks, tokens, dropped, prev>>

Env(op) == last' = Record(op, "h", <<>>, FALSE, Ok(<<>>, FALSE))

\* index i is outside the range the list accepts (for an insertion or not)
Bad(i, insertion) ==
    IF cls = "List" THEN List_verify_valid_row(i, insertion).outcome # "ok"
    ELSE PrimitiveList_verify_valid_row(i, insertion).outcome # "ok"

\* Realm::begin_transaction
begin_transaction ==
    /\ ~inTx
    /\ inTx' = TRUE
    /\ Env("begin_transaction")
    /\ UNCHANGED <<cls, opt, T, sync, caller, results, table, links, attached, m_notifier, seenInvalidated,
                 callbacks, tokens, dropped, prev>>

\* Realm::commit_transaction
commit_transaction ==
    /\ inTx
    /\ inTx' = FALSE
    /\ Env("commit_transaction")
    /\ UNCHANGED <<cls, opt, T, sync, caller, results, table, links, attached, m_notifier, seenInvalidated,
                 callbacks, tokens, dropped, prev>>

\* the storage goes away with its rows: the backing table, or the link view's
\* origin row, is deleted and the accessor is detached; a link view's target
\* table stays
Detach ==
    /\ attached
    /\ attached' = FALSE
    /\ table' = IF cls = "PrimitiveList" THEN <<>> ELSE table
    /\ links' = <<>>
    /\ Env("detach")
    /\ UNCHANGED <<cls, opt, T, sync, caller, results, inTx, m_notifier, seenInvalidated,
                 callbacks, tokens, dropped, prev>>

\* an object is created in the link view's target table
CreateTargetRow ==
    /\ cls = "List" /\ inTx /\ Len(table) < MaxRows
    /\ \E v \in Values :
          /\ table' = Append(table, v)
          /\ Env("create_row")
    /\ UNCHANGED <<cls, opt, T, sync, caller, results, links, attached, inTx, m_notifier, seenInvalidated,
                 callbacks, tokens, dropped, prev>>

Do_PrimitiveList_size ==
    /\ cls = "PrimitiveList"
    /\ \E h \in Handles : \E ub \in UBFor(h) :
          Call("size", h, <<>>, FALSE, PrimitiveList_size(h, ub))

Do_PrimitiveList_get ==
    /\ cls = "PrimitiveList"
    /\ \E h \in Handles : \E i \in IndicesFor(h) : \E ub \in UBFor(h) :
          Call("get", h, <<i>>, Bad(i, FALSE), PrimitiveList_get(h, i, ub))

Do_PrimitiveList_find ==
    /\ cls = "PrimitiveList"
    /\ \E h \in Handles : \E v \in SearchValuesFor(h) : \E ub \in UBFor(h) :
          Call("find", h, <<v>>, FALSE, PrimitiveList_find(h, v, ub))

Do_PrimitiveList_add ==
    /\ cls = "PrimitiveList" /\ Len(table) < MaxRows
    /\ \E h \in Handles : \E v \in ValuesFor(h) : \E ub \in UBFor(h) :
          Call("add", h, <<v>>, FALSE, PrimitiveList_add(h, v, ub))

Do_PrimitiveList_insert ==
    /\ cls = "PrimitiveList" /\ Len(table) < MaxRows
    /\ \E h \in Handles : \E i \in IndicesFor(h), v \in ValuesFor(h) : \E ub \in UBFor(h) :
          Call("insert", h, <<i, v>>, Bad(i, TRUE), PrimitiveList_insert(h, i, v, ub))

Do_PrimitiveList_move ==
    /\ cls = "PrimitiveList"
    /\ \E h \in Handles : \E i \in IndicesFor(h), j \in IndicesFor(h) : \E ub \in UBFor(h) :
          Call("move", h, <<i, j>>, Bad(i, FALSE) \/ Bad(j, FALSE), PrimitiveList_move(h, i, j, ub))

Do_PrimitiveList_remove ==
    /\ cls = "PrimitiveList"
    /\ \E h \in Handles : \E i \in IndicesFor(h) : \E ub \in UBFor(h) :
          Call("remove", h, <<i>>, Bad(i, FALSE), PrimitiveList_remove(h, i, ub))

Do_PrimitiveList_remove_all ==
    /\ cls = "PrimitiveList"
    /\ \E h \in Handles : \E ub \in UBFor(h) :
          Call("remove_all", h, <<>>, FALSE, PrimitiveList_remove_all(h, ub))

Do_PrimitiveList_set ==
    /\ cls = "PrimitiveList"
    /\ \E h \in Handles : \E i \in IndicesFor(h), v \in ValuesFor(h) : \E ub \in UBFor(h) :
          Call("set", h, <<i, v>>, Bad(i, FALSE), PrimitiveList_set(h, i, v, ub))

Do_PrimitiveList_swap ==
    /\ cls = "PrimitiveList"
    /\ \E h \in Handles : \E i \in IndicesFor(h), j \in IndicesFor(h) : \E ub \in UBFor(h) :
          Call("swap", h, <<i, j>>, Bad(i, FALSE) \/ Bad(j, FALSE), PrimitiveList_swap(h, i, j, ub))

Do_PrimitiveList_sort ==
    /\ cls = "PrimitiveList"
    /\ \E h \in Handles : \E ascending \in BOOLEAN : \E ub \in UBFor(h) :
          Call("sort", h, <<>>, FALSE, PrimitiveList_sort(h, ascending, ub))

Do_PrimitiveList_filter ==
    /\ cls = "PrimitiveList"
    /\ \E h \in Handles : \E ub \in UBFor(h) :
          Call("filter", h, <<>>, FALSE, PrimitiveList_filter(h, ub))

Do_PrimitiveList_snapshot ==
    /\ cls = "PrimitiveList"
    /\ \E h \in Handles : \E ub \in UBFor(h) :
          Call("snapshot", h, <<>>, FALSE, PrimitiveList_snapshot(h, ub))

Do_PrimitiveList_aggregate ==
    /\ cls = "PrimitiveList"
    /\ \E h \in Handles, name \in AggregateOps, ub \in MisuseOutcomes :
          \E e \in Raced(PrimitiveList_aggregate(h, name, ub), ub) :
              Call(name, h, <<>>, FALSE, e)

Do_PrimitiveList_get_unchecked ==
    /\ cls = "PrimitiveList"
    /\ \E h \in Handles : \E i \in IndicesFor(h) : \E ub \in Misuse(h) :
          \E e \in Raced(PrimitiveList_get_unchecked(h, i, ub), ub) :
              Call("get_unchecked", h, <<i>>, FALSE, e)

\* the list a notifier watches, and the id the next callback gets
Contents == IF cls = "List" THEN links ELSE table
NextToken == Cardinality(tokens) + Cardinality(dropped) + 1

\* if (!m_notifier) { m_notifier = make_shared<Notifier>(storage, m_realm);
\* register_notifier(m_notifier); }  m_notifier->add_callback(cb)
Subscribe(h, r) ==
    /\ NextToken <= MaxCallbacks
    /\ m_notifier' = IF r.outcome = "ok" THEN m_notifier \cup {h} ELSE m_notifier
    /\ prev' = IF r.outcome = "ok" /\ h \notin m_notifier
                THEN (h :> Contents) @@ prev ELSE prev
    /\ callbacks' = IF r.outcome = "ok"
                     THEN callbacks \cup {[id |-> NextToken, notifier |-> h]}
                     ELSE callbacks
    /\ tokens' = IF r.outcome = "ok"
                  THEN tokens \cup {[id |-> NextToken, notifier |-> h]}
                  ELSE tokens
    /\ last' = Record("add_notification_callback", h, <<>>, FALSE, r)
    /\ seenInvalidated' = Seen(h, r)
    /\ UNCHANGED <<cls, opt, T, sync, caller, results, table, links, attached, inTx, dropped>>

Do_PrimitiveList_add_notification_callback ==
    /\ cls = "PrimitiveList"
    /\ \E h \in SubscribingHandles : \E ub \in UBFor(h) :
          Subscribe(h, PrimitiveList_add_notification_callback(h, ub))

Do_PrimitiveList_operator_eq ==
    /\ cls = "PrimitiveList"
    /\ \E lft \in EqHandles, rgt \in EqHandles :
          /\ last' = Record("operator==", lft, <<rgt>>, FALSE,
                            Ok(<<PrimitiveList_operator_eq(lft, rgt)>>, FALSE))
          /\ UNCHANGED <<cls, opt, T, sync, caller, results, table, links, attached, inTx, m_notifier,
                         seenInvalidated, callbacks, tokens, dropped, prev>>

\* rows of the target table a caller can name
TargetRows == 0 .. (Len(table) - 1)
RowRefs == BOOLEAN \X BOOLEAN \X (0 .. (MaxRows - 1))
TargetRowsFor(h) == IF HasStorage(h) THEN TargetRows ELSE {0}
RowRefsFor(h) == IF HasStorage(h) THEN RowRefs ELSE {<<TRUE, TRUE, 0>>}

Do_List_size ==
    /\ cls = "List"
    /\ \E h \in Handles : \E ub \in UBFor(h) :
          Call("size", h, <<>>, FALSE, List_size(h, ub))

Do_List_get ==
    /\ cls = "List"
    /\ \E h \in Handles : \E i \in IndicesFor(h) : \E ub \in UBFor(h) :
          Call("get", h, <<i>>, Bad(i, FALSE), List_get(h, i, ub))

Do_List_get_row ==
    /\ cls = "List"
    /\ \E h \in Handles : \E i \in IndicesFor(h) : \E ub \in UBFor(h) :
          Call("get_row", h, <<i>>, Bad(i, FALSE), List_get_row(h, i, ub))

Do_List_find ==
    /\ cls = "List"
    /\ \E h \in Handles : \E v \in SearchValuesFor(h) : \E ub \in UBFor(h) :
          Call("find", h, <<v>>, FALSE, List_find(h, v, ub))

Do_List_find_row ==
    /\ cls = "List"
    /\ \E h \in Handles : \E row \in RowRefsFor(h) : \E ub \in UBFor(h) :
          Call("find_row", h, <<row>>, FALSE, List_find_row(h, row, ub))

Do_List_add ==
    /\ cls = "List" /\ Len(table) < MaxRows
    /\ \E h \in Handles : \E v \in ValuesFor(h) : \E ub \in UBFor(h) :
          Call("add", h, <<v>>, FALSE, List_add(h, v, ub))

Do_List_add_link ==
    /\ cls = "List" /\ Len(links) < MaxLinks
    /\ \E h \in Handles : \E t \in TargetRowsFor(h) : \E ub \in UBFor(h) :
          Call("add_link", h, <<t>>, FALSE, List_add_link(h, t, ub))

Do_List_add_int ==
    /\ cls = "List" /\ Len(links) < MaxLinks
    /\ \E h \in Handles : \E t \in TargetRowsFor(h) : \E ub \in UBFor(h) :
          Call("add_int", h, <<t>>, FALSE, List_add_int(h, t, ub))

Do_List_insert ==
    /\ cls = "List" /\ Len(table) < MaxRows
    /\ \E h \in Handles : \E i \in IndicesFor(h), v \in ValuesFor(h) : \E ub \in Misuse(h) :
          Call("insert", h, <<i, v>>, Bad(i, TRUE), List_insert(h, i, v, ub))

Do_List_insert_link ==
    /\ cls = "List" /\ Len(links) < MaxLinks
    /\ \E h \in Handles : \E i \in IndicesFor(h), t \in TargetRowsFor(h) : \E ub \in UBFor(h) :
          Call("insert_link", h, <<i, t>>, Bad(i, TRUE), List_insert_link(h, i, t, ub))

Do_List_move ==
    /\ cls = "List"
    /\ \E h \in Handles : \E i \in IndicesFor(h), j \in IndicesFor(h) : \E ub \in UBFor(h) :
          Call("move", h, <<i, j>>, Bad(i, FALSE) \/ Bad(j, FALSE), List_move(h, i, j, ub))

Do_List_remove ==
    /\ cls = "List"
    /\ \E h \in Handles : \E i \in IndicesFor(h) : \E ub \in UBFor(h) :
          Call("remove", h, <<i>>, Bad(i, FALSE), List_remove(h, i, ub))

Do_List_remove_all ==
    /\ cls = "List"
    /\ \E h \in Handles : \E ub \in UBFor(h) :
          Call("remove_all", h, <<>>, FALSE, List_remove_all(h, ub))

Do_List_set ==
    /\ cls = "List"
    /\ \E h \in Handles : \E i \in IndicesFor(h), v \in ValuesFor(h) : \E ub \in Misuse(h) :
          Call("set", h, <<i, v>>, Bad(i, FALSE), List_set(h, i, v, ub))

Do_List_set_link ==
    /\ cls = "List"
    /\ \E h \in Handles : \E i \in IndicesFor(h), t \in TargetRowsFor(h) : \E ub \in UBFor(h) :
          Call("set_link", h, <<i, t>>, Bad(i, FALSE), List_set_link(h, i, t, ub))

Do_List_swap ==
    /\ cls = "List"
    /\ \E h \in Handles : \E i \in IndicesFor(h), j \in IndicesFor(h) : \E ub \in UBFor(h) :
          Call("swap", h, <<i, j>>, Bad(i, FALSE) \/ Bad(j, FALSE), List_swap(h, i, j, ub))

Do_List_delete_all ==
    /\ cls = "List"
    /\ \E h \in Handles : \E ub \in UBFor(h) :
          Call("delete_all", h, <<>>, FALSE, List_delete_all(h, ub))

Do_List_sort ==
    /\ cls = "List"
    /\ \E h \in Handles : \E ub \in UBFor(h) :
          Call("sort", h, <<>>, FALSE, List_sort(h, ub))

Do_List_filter ==
    /\ cls = "List"
    /\ \E h \in Handles : \E ub \in UBFor(h) :
          Call("filter", h, <<>>, FALSE, List_filter(h, ub))

Do_List_snapshot ==
    /\ cls = "List"
    /\ \E h \in Handles : \E ub \in UBFor(h) :
          Call("snapshot", h, <<>>, FALSE, List_snapshot(h, ub))

Do_List_aggregate ==
    /\ cls = "List"
    /\ \E h \in Handles, name \in AggregateOps, ub \in MisuseOutcomes :
          \E e \in Raced(List_aggregate(h, name, ub), ub) :
              Call(name, h, <<>>, FALSE, e)

Do_List_get_unchecked ==
    /\ cls = "List"
    /\ \E h \in Handles : \E i \in IndicesFor(h) : \E ub \in Misuse(h) :
          \E e \in Raced(List_get_unchecked(h, i, ub), ub) :
              Call("get_unchecked", h, <<i>>, FALSE, e)

Do_List_add_notification_callback ==
    /\ cls = "List"
    /\ \E h \in SubscribingHandles : \E ub \in UBFor(h) :
          Subscribe(h, List_add_notification_callback(h, ub))

Do_List_operator_eq ==
    /\ cls = "List"
    /\ \E lft \in EqHandles, rgt \in EqHandles :
          /\ last' = Record("operator==", lft, <<rgt>>, FALSE,
                            Ok(<<List_operator_eq(lft, rgt)>>, FALSE))
          /\ UNCHANGED <<cls, opt, T, sync, caller, results, table, links, attached, inTx, m_notifier,
                         seenInvalidated, callbacks, tokens, dropped, prev>>

(***************************************************************************)
(* Notification delivery.  The notifier classes, the coordinator that runs *)
(* them and the token are outside src/; they follow the specification: a   *)
(* notifier compares the list with what it saw at its last run and hands   *)
(* the changeset to each callback registered on it, and a dropped token    *)
(* deregisters its callback.                                               *)
(***************************************************************************)
\* faulty variants: a changeset that reports the whole list as inserted, a
\* token whose drop empties its notifier, and a token whose drop does nothing
Changes_reports_whole_list(old, new) ==
    [insertions |-> 0 .. (Len(new) - 1), deletions |-> {}, modifications |-> {}]

remove_callback_clears_notifier(id) ==
    {c \in callbacks : \A d \in callbacks : d.id = id => d.notifier # c.notifier}

remove_callback_keeps_callback(id) == callbacks

IsPrefix(old, new) ==
    Len(old) <= Len(new) /\ \A k \in 1 .. Len(old) : old[k] = new[k]

Changes(old, new) ==
    IF IsPrefix(old, new)
    THEN [insertions |-> Len(old) .. (Len(new) - 1), deletions |-> {},
          modifications |-> {}]
    ELSE [insertions |-> 0 .. (Len(new) - 1), deletions |-> 0 .. (Len(old) - 1),
          modifications |-> {}]

\* the callbacks a run of the notifiers calls
Recipients == {c \in callbacks : prev[c.notifier] # Contents}

\* one changeset for each of them
Deliveries ==
    {[cb |-> c.id] @@ Changes(prev[c.notifier], Contents) : c \in Recipients}

\* ~NotificationToken(): the notifier forgets the callback
remove_callback(id) == {c \in callbacks : c.id # id}

drop_token ==
    /\ \E t \in tokens :
          /\ tokens' = tokens \ {t}
          /\ callbacks' = remove_callback(t.id)
          /\ dropped' = dropped \cup {t.id}
    /\ Env("drop_token")
    /\ UNCHANGED <<cls, opt, T, sync, caller, results, table, links, attached, inTx, m_notifier,
                   seenInvalidated, prev>>

\* the realm advances to the committed version and the notifiers run
deliver_notifications ==
    /\ ~inTx
    /\ \E n \in m_notifier : prev[n] # Contents
    /\ prev' = [n \in m_notifier |-> Contents]
    /\ last' = Record("deliver", "h", <<prev>>, FALSE, Ok(<<Deliveries>>, FALSE))
    /\ UNCHANGED <<cls, opt, T, sync, caller, results, table, links, attached, inTx, m_notifier,
                   seenInvalidated, callbacks, tokens, dropped>>

Next ==
    \/ begin_transaction
    \/ commit_transaction
    \/ Detach
    \/ CreateTargetRow
    \/ Do_PrimitiveList_size
    \/ Do_PrimitiveList_get
    \/ Do_PrimitiveList_find
    \/ Do_PrimitiveList_add
    \/ Do_PrimitiveList_insert
    \/ Do_PrimitiveList_move
    \/ Do_PrimitiveList_remove
    \/ Do_PrimitiveList_remove_all
    \/ Do_PrimitiveList_set
    \/ Do_PrimitiveList_swap
    \/ Do_PrimitiveList_sort
    \/ Do_PrimitiveList_filter
    \/ Do_PrimitiveList_snapshot
    \/ Do_PrimitiveList_aggregate
    \/ Do_List_size
    \/ Do_List_get
    \/ Do_List_get_row
    \/ Do_List_find
    \/ Do_List_find_row
    \/ Do_List_add
    \/ Do_List_add_link
    \/ Do_List_add_int
    \/ Do_List_insert
    \/ Do_List_insert_link
    \/ Do_List_move
    \/ Do_List_remove
    \/ Do_List_remove_all
    \/ Do_List_set
    \/ Do_List_set_link
    \/ Do_List_swap
    \/ Do_List_delete_all
    \/ Do_List_sort
    \/ Do_List_filter
    \/ Do_List_snapshot
    \/ Do_List_aggregate

Spec == Init /\ [][Next]_vars

\* with the registration of notification callbacks
NextHandle ==
    \/ begin_transaction
    \/ commit_transaction
    \/ Detach
    \/ Do_PrimitiveList_add
    \/ Do_List_add_link
    \/ Do_PrimitiveList_aggregate
    \/ Do_List_aggregate
    \/ Do_PrimitiveList_add_notification_callback
    \/ Do_List_add_notification_callback
    \/ drop_token
    \/ deliver_notifications

\* a list of int64_t, or a link list whose target table has one row
InitHandle ==
    /\ cls \in {"PrimitiveList", "List"}
    /\ opt = FALSE
    /\ T = "int64_t"
    /\ table = (IF cls = "List" THEN <<Default>> ELSE <<>>)
    /\ links = <<>>
    /\ attached = TRUE
    /\ inTx = FALSE
    /\ m_notifier = {}
    /\ seenInvalidated = FALSE
    /\ caller = "owner"
    /\ results = PrimitiveResults_default
    /\ sync = NoPermissionCalls
    /\ callbacks = {} /\ tokens = {} /\ dropped = {} /\ prev = <<>>
    /\ last = [op |-> "construct", h |-> "h", args |-> <<>>, bad_index |-> FALSE,
               pre_table |-> table, pre_links |-> <<>>,
               pre_results |-> results] @@ Ok(<<>>, FALSE)

SpecHandle == InitHandle /\ [][NextHandle]_vars

(***************************************************************************)
(* The engines: a PrimitiveResults the caller holds over the table of the  *)
(* list, read and derived from while the list changes.                     *)
(***************************************************************************)
Filters == {{1}}
ReadOps == {"get", "first", "last", "index_of"} \cup AggregateOps

ResultsCall(op, args, ans) ==
    /\ results' = ans.results
    /\ last' = Record(op, "results", args, FALSE, ans.res)
    /\ UNCHANGED <<cls, opt, T, sync, caller, table, links, attached, inTx, m_notifier,
                   seenInvalidated, callbacks, tokens, dropped, prev>>

\* an engine comes into the caller's hands: default-constructed, over the
\* table (PrimitiveList's aggregates), from PrimitiveList::sort or ::filter
Construct ==
    /\ attached
    /\ \E e \in {PrimitiveResults_default, PrimitiveResults_of_table}
               \cup {PrimitiveResults_of_query(where, s, FALSE) : s \in {"Ascending", "Descending"}}
               \cup {PrimitiveResults_of_query(and_query(where, q), "None", FALSE) : q \in Filters} :
          ResultsCall("construct", <<>>, Answer(Ok(<<>>, FALSE), e))

\* the caller keeps the engine the last call returned
Adopt ==
    /\ last.h = "results" /\ last.outcome = "ok" /\ last.engine = "PrimitiveResults"
    /\ ResultsCall("adopt", <<>>, Answer(Ok(<<>>, FALSE), last.result[1]))

Do_PrimitiveResults_get ==
    \E i \in 0 .. MaxRows :
        ResultsCall("get", <<i>>, PrimitiveResults_get(results, i))

Do_PrimitiveResults_first_last ==
    \E name \in {"first", "last"} :
        ResultsCall(name, <<>>, PrimitiveResults_first_last(results, name))

Do_PrimitiveResults_index_of ==
    \E v \in Values \cup (IF opt THEN {Null} ELSE {}) :
        ResultsCall("index_of", <<v>>, PrimitiveResults_index_of(results, v))

Do_PrimitiveResults_aggregate ==
    \E name \in AggregateOps, ub \in MisuseOutcomes :
        ResultsCall(name, <<>>, PrimitiveResults_aggregate_in(results, name, ub))

Do_PrimitiveResults_sort ==
    \E s \in Sorts :
        ResultsCall("sort", <<s>>, PrimitiveResults_sort(results, s))

Do_PrimitiveResults_filter ==
    \E q \in Filters :
        ResultsCall("filter", <<q>>, PrimitiveResults_filter(results, q))

Do_PrimitiveResults_distinct ==
    /\ results.mode # "Empty"
    /\ ResultsCall("distinct", <<>>, PrimitiveResults_distinct(results))

Do_PrimitiveResults_snapshot ==
    \E rvalue \in BOOLEAN :
        ResultsCall("snapshot", <<rvalue>>,
                    IF rvalue THEN snapshot_rvalue(results, 0) ELSE snapshot_lvalue(results, 0))

\* a PrimitiveList<int64_t> and the engines over its table
InitResults ==
    /\ Init
    /\ cls = "PrimitiveList" /\ ~opt

NextResults ==
    \/ begin_transaction
    \/ commit_transaction
    \/ Detach
    \/ Do_PrimitiveList_add
    \/ Do_PrimitiveList_remove
    \/ Construct
    \/ Adopt
    \/ Do_PrimitiveResults_get
    \/ Do_PrimitiveResults_first_last
    \/ Do_PrimitiveResults_index_of
    \/ Do_PrimitiveResults_aggregate
    \/ Do_PrimitiveResults_sort
    \/ Do_PrimitiveResults_filter
    \/ Do_PrimitiveResults_distinct
    \/ Do_PrimitiveResults_snapshot

SpecResults == InitResults /\ [][NextResults]_vars

(***************************************************************************)
(* The permission calls: one get_permissions and one set_permission, the   *)
(* download, the server's answer and the notifications that follow.        *)
(***************************************************************************)
SyncStep(s) ==
    /\ sync' = s
    /\ UNCHANGED <<cls, opt, T, caller, results, table, links, attached, inTx, m_notifier,
                   seenInvalidated, callbacks, tokens, dropped, prev, last>>

Notified(s, to, ex) ==
    [s EXCEPT !.delivered = @ + 1, !.notification = [to |-> to, ex |-> ex]]

\* get_permissions returns having asked the session to wait for the download
Do_Permissions_get_permissions ==
    /\ sync.get = "idle"
    /\ SyncStep([sync EXCEPT !.get = "waiting"])

\* the download completes: the handler calls signal->notify()
download_completion ==
    /\ sync.get = "waiting"
    /\ SyncStep([sync EXCEPT !.get = "notified"])

\* the event loop runs the signal's function: the Results over the
\* Permission table are made and `async` is registered on them
run_signal ==
    /\ sync.get = "notified"
    /\ SyncStep([sync EXCEPT !.get = "registered"])

\* synchronisation adds a row to the Permission table
download_permission ==
    /\ sync.size < MaxRows
    /\ SyncStep([sync EXCEPT !.size = @ + 1])

\* a notification for the Permission results, with or without an error
notify_results ==
    /\ sync.get = "registered" /\ sync.delivered < MaxNotifications
    /\ \E ex \in BOOLEAN : SyncStep(async(Notified(sync, "async", ex), ex))

Do_Permissions_set_permission ==
    /\ sync.set = "idle"
    /\ \E access \in AccessLevels \ {"None"} :
          SyncStep(Permissions_set_permission(sync, access))

Do_Permissions_delete_permission ==
    /\ sync.set = "idle"
    /\ SyncStep(Permissions_delete_permission(sync))

\* the server processes the PermissionChange object and sets statusCode
set_status ==
    /\ sync.set # "idle" /\ sync.statusCode = Null
    /\ \E code \in StatusCodes : SyncStep([sync EXCEPT !.statusCode = code])

\* a notification for the PermissionChange object, with or without an error
notify_object ==
    /\ sync.set = "registered" /\ sync.delivered < MaxNotifications
    /\ \E ex \in BOOLEAN : SyncStep(block(Notified(sync, "block", ex), ex))

NextPermissions ==
    \/ Do_Permissions_get_permissions
    \/ download_completion
    \/ run_signal
    \/ download_permission
    \/ notify_results
    \/ Do_Permissions_set_permission
    \/ Do_Permissions_delete_permission
    \/ set_status
    \/ notify_object

SpecPermissions == InitResults /\ [][NextPermissions]_vars

\* the calls move to another execution context, or back to the owner's
switch_context ==
    /\ caller' = (IF caller = "owner" THEN "foreign" ELSE "owner")
    /\ Env("switch_context")
    /\ UNCHANGED <<cls, opt, T, sync, results, table, links, attached, inTx, m_notifier,
                   seenInvalidated, callbacks, tokens, dropped, prev>>

\* reads and writes from the owner's context and from another one
NextThread ==
    \/ switch_context
    \/ begin_transaction
    \/ commit_transaction
    \/ CreateTargetRow
    \/ Do_PrimitiveList_size
    \/ Do_PrimitiveList_get
    \/ Do_PrimitiveList_get_unchecked
    \/ Do_PrimitiveList_add
    \/ Do_PrimitiveList_aggregate
    \/ Do_List_size
    \/ Do_List_get
    \/ Do_List_get_unchecked
    \/ Do_List_add_link
    \/ Do_List_aggregate

SpecThread == Init /\ [][NextThread]_vars

\* the handles compared with one another, whatever the lists hold
NextIdentity ==
    \/ begin_transaction
    \/ commit_transaction
    \/ CreateTargetRow
    \/ Do_PrimitiveList_add
    \/ Do_List_add_link
    \/ Do_PrimitiveList_operator_eq
    \/ Do_List_operator_eq

SpecIdentity == Init /\ [][NextIdentity]_vars

\* PrimitiveList<T> for every element type it is instantiated with: lists are
\* filled by add and aggregated
InitTypes ==
    /\ cls = "PrimitiveList"
    /\ T \in ElementTypes
    /\ opt = (T \in OptionalTypes)
    /\ table = <<>>
    /\ links = <<>>
    /\ attached = TRUE
    /\ inTx = FALSE
    /\ m_notifier = {}
    /\ seenInvalidated = FALSE
    /\ caller = "owner"
    /\ results = PrimitiveResults_default
    /\ sync = NoPermissionCalls
    /\ callbacks = {} /\ tokens = {} /\ dropped = {} /\ prev = <<>>
    /\ last = [op |-> "construct", h |-> "h", args |-> <<>>, bad_index |-> FALSE,
               pre_table |-> <<>>, pre_links |-> <<>>,
               pre_results |-> results] @@ Ok(<<>>, FALSE)

NextTypes ==
    \/ begin_transaction
    \/ commit_transaction
    \/ Do_PrimitiveList_add
    \/ Do_PrimitiveList_aggregate

SpecTypes == InitTypes /\ [][NextTypes]_vars

(***************************************************************************)
(* What a caller observes.                                                 *)
(***************************************************************************)
\* the operations of the list API, by the names the calls are recorded under
Operations ==
    {"size", "get", "get_row", "find", "find_row", "add", "add_link", "add_int",
     "insert", "insert_link", "set", "set_link", "remove", "remove_all", "move",
     "swap", "sort", "filter", "snapshot", "add_notification_callback"}
        \cup AggregateOps
MutatingOps ==
    {"add", "add_link", "add_int", "insert", "insert_link", "set", "set_link",
     "remove", "remove_all", "move", "swap", "delete_all"}
Failures == {"Invalidated", "InvalidTransaction", "OutOfBoundsIndex"}

\* size() as the list reports it now, and as it was before the last call
Size == IF cls = "List" THEN Len(links) ELSE Len(table)
PreSize == IF cls = "List" THEN Len(last.pre_links) ELSE Len(last.pre_table)

\* the calls of the class under test, through handle h
size_of(h) == IF cls = "List" THEN List_size(h, "Crash") ELSE PrimitiveList_size(h, "Crash")
get_of(h, i) == IF cls = "List" THEN List_get(h, i, "Crash") ELSE PrimitiveList_get(h, i, "Crash")
insert_of(h, i, v) ==
    IF cls = "List" THEN List_insert(h, i, v, "Crash") ELSE PrimitiveList_insert(h, i, v, "Crash")

\* element k of the list held in storage <<t, l>>, as get<T>(k) reads it
Element(t, l, k) == IF cls = "List" THEN list_get(t, l[k + 1]) ELSE get(t, k)

\* the last call wrote a link (a target row) rather than a value of type T
LinkCall == last.op \in {"add_link", "add_int", "insert_link", "set_link"}

(***************************************************************************)
(* C1: after set(i, v) succeeds, get(i) through the same handle returns v  *)
(* (a null v reads back as null); set(size_t, size_t) and get(size_t) of   *)
(* the object-link variant likewise.                                       *)
(***************************************************************************)
C1_SetThenGet ==
    (last.outcome = "ok" /\ last.op \in {"set", "set_link"}) =>
        (IF last.op = "set" THEN get_of(last.h, last.args[1])
         ELSE List_get_row(last.h, last.args[1], "Crash"))
            = Same(Ok(<<last.args[2]>>, TRUE))

\* the same round trip, for PrimitiveList and for the link overloads only
C1_SetThenGet_elsewhere ==
    (cls = "PrimitiveList" \/ last.op = "set_link") => C1_SetThenGet

(***************************************************************************)
(* C2: on a list of size n, insert(n, v) and add(v) both succeed and leave *)
(* size() = n + 1, get(n) = v, and get(k) unchanged for every k < n.       *)
(***************************************************************************)
C2_InsertAtEndIsAdd ==
    (/\ last.outcome = "ok"
     /\ \/ last.op \in {"add", "add_link", "add_int"}
        \/ (last.op \in {"insert", "insert_link"} /\ last.args[1] = PreSize)) =>
        LET v == last.args[Len(last.args)]
            n == PreSize IN
        /\ size_of(last.h) = Same(Ok(<<n + 1>>, TRUE))
        /\ (IF LinkCall THEN List_get_row(last.h, n, "Crash") ELSE get_of(last.h, n))
              = Same(Ok(<<v>>, TRUE))
        /\ \A k \in 0 .. (n - 1) :
              /\ Element(table, links, k) = Element(last.pre_table, last.pre_links, k)
              /\ cls = "List" => links[k + 1] = last.pre_links[k + 1]

\* the same, for PrimitiveList and for the link overloads only
C2_InsertAtEndIsAdd_elsewhere ==
    (cls = "PrimitiveList" \/ LinkCall) => C2_InsertAtEndIsAdd

(***************************************************************************)
(* C3: insert(k, v) with k > size() fails with OutOfBoundsIndex whose      *)
(* requested is k and whose valid_count is size().                         *)
(***************************************************************************)
C3_InsertPastEnd_valid_count_is_size ==
    \A k \in Indices, v \in Values :
        (attached /\ inTx /\ k > Size) =>
            insert_of("h", k, v) = Same(OutOfBoundsIndexException(k, Size))

\* C3 as the code has it: the valid_count of a failed insertion is size() + 1
C3_InsertPastEnd ==
    /\ \A k \in Indices, v \in Values :
          (attached /\ inTx /\ k > Size) =>
              insert_of("h", k, v) = Same(OutOfBoundsIndexException(k, Size + 1))
    /\ \A k \in Indices, t \in TargetRows :
          (cls = "List" /\ attached /\ inTx /\ k > Size) =>
              List_insert_link("h", k, t, "Crash")
                  = Same(OutOfBoundsIndexException(k, Size + 1))

C3_Witness ==
    /\ last.op \in {"insert", "insert_link"} /\ last.h = "h"
    /\ last.outcome = "OutOfBoundsIndex"
    /\ PreSize >= 1
    /\ last.requested > PreSize
    /\ last.valid_count = PreSize + 1

(***************************************************************************)
(* C4: get(index) with index >= size() fails with OutOfBoundsIndex whose   *)
(* requested is index and whose valid_count is size().                     *)
(***************************************************************************)
C4_GetPastEnd ==
    \A i \in Indices :
        (attached /\ i >= Size) =>
            /\ get_of("h", i) = Same(OutOfBoundsIndexException(i, Size))
            /\ cls = "List" =>
                  List_get_row("h", i, "Crash") = Same(OutOfBoundsIndexException(i, Size))

C4_Witness ==
    /\ last.op \in {"get", "get_row"} /\ last.h = "h"
    /\ last.outcome = "OutOfBoundsIndex"
    /\ PreSize >= 1
    /\ last.requested >= PreSize
    /\ last.valid_count = PreSize

(***************************************************************************)
(* C5: after remove_all() succeeds, size() is 0 and get(0) fails with      *)
(* OutOfBoundsIndex{requested 0, valid_count 0}.                           *)
(***************************************************************************)
C5_RemoveAll ==
    (last.op = "remove_all" /\ last.outcome = "ok") =>
        /\ size_of(last.h) = Same(Ok(<<0>>, TRUE))
        /\ get_of(last.h, 0) = Same(OutOfBoundsIndexException(0, 0))
        /\ cls = "List" =>
              List_get_row(last.h, 0, "Crash") = Same(OutOfBoundsIndexException(0, 0))

C5_Witness ==
    /\ last.op = "remove_all" /\ last.outcome = "ok"
    /\ PreSize >= 2
    /\ Size = 0

(***************************************************************************)
(* C6: on a handle whose storage is gone, every operation of the API fails *)
(* with Invalidated, and does so before it touches the storage.            *)
(***************************************************************************)
C6_DetachedFailsInvalidated ==
    (~attached /\ last.h = "h" /\ last.op \in Operations) =>
        (last.outcome = "Invalidated" /\ ~last.touched)

\* what does hold: every operation but the four aggregates
C6_DetachedFailsInvalidated_but_aggregates ==
    (~attached /\ last.h = "h" /\ last.op \in Operations \ AggregateOps) =>
        (last.outcome = "Invalidated" /\ ~last.touched)

(***************************************************************************)
(* C7: on an attached handle with no write transaction active, each        *)
(* mutating operation (add, insert, set, remove, remove_all, move, swap,   *)
(* delete_all) fails with InvalidTransaction, whatever its arguments, and  *)
(* no transaction is started on the caller's behalf.                       *)
(***************************************************************************)
C7_MutationNeedsTransaction ==
    (attached /\ ~inTx /\ last.h = "h" /\ last.op \in MutatingOps) =>
        /\ last.outcome = "InvalidTransaction"
        /\ table = last.pre_table /\ links = last.pre_links

C7_Witness ==
    /\ attached /\ ~inTx /\ last.h = "h"
    /\ last.op = "set" /\ last.outcome = "InvalidTransaction"
    /\ Size >= 1

(***************************************************************************)
(* C8: an operation that fails with Invalidated, InvalidTransaction or     *)
(* OutOfBoundsIndex leaves the list's size and elements as they were.      *)
(***************************************************************************)
C8_FailureLeavesListUnchanged ==
    (last.op \in Operations \cup {"delete_all"} /\ last.outcome \in Failures) =>
        /\ table = last.pre_table /\ links = last.pre_links
        /\ Size = PreSize
        /\ \A k \in 0 .. (Size - 1) :
              Element(table, links, k) = Element(last.pre_table, last.pre_links, k)

C8_Witness ==
    /\ last.op = "insert" /\ last.h = "h"
    /\ last.outcome = "OutOfBoundsIndex"
    /\ PreSize >= 1 /\ Size = PreSize

(***************************************************************************)
(* C9: on a default-constructed handle (no realm, no storage) every        *)
(* operation fails with Invalidated.                                       *)
(***************************************************************************)
C9_DefaultHandleFailsInvalidated ==
    (last.h = "dflt" /\ last.op \in Operations) => last.outcome = "Invalidated"

(***************************************************************************)
(* C10: once an operation on a handle has failed with Invalidated because  *)
(* the storage is gone, every later operation on it (or on a copy, which   *)
(* shares the storage) fails with Invalidated too.                         *)
(***************************************************************************)
C10_InvalidatedIsTerminal ==
    (seenInvalidated /\ last.h = "h" /\ last.op \in Operations) =>
        last.outcome = "Invalidated"

\* what does hold: the handle is never attached again, and every operation
\* that checks attachment keeps failing
C10_InvalidatedIsTerminal_but_aggregates ==
    seenInvalidated =>
        /\ ~attached
        /\ (last.h = "h" /\ last.op \in Operations \ AggregateOps) =>
              last.outcome = "Invalidated"

\* find<T>(v) of the class under test, through handle h
find_of(h, v) == IF cls = "List" THEN List_find(h, v, "Crash") ELSE PrimitiveList_find(h, v, "Crash")

\* the list indices whose element, as get<T> reads it, equals v
IndicesOf(v) == {k \in 0 .. (Size - 1) : Element(table, links, k) = v}
\* the smallest of them, or not_found
FirstIndexOf(v) ==
    IF IndicesOf(v) = {} THEN not_found
    ELSE CHOOSE k \in IndicesOf(v) : \A j \in IndicesOf(v) : k <= j

(***************************************************************************)
(* C11: find(absent) on an optional list holding exactly one null entry,   *)
(* at index k, returns k; on a list holding no null entry it returns the   *)
(* not-found sentinel.                                                     *)
(***************************************************************************)
C11_FindNull ==
    (attached /\ opt) =>
        /\ Cardinality(IndicesOf(Null)) = 1 =>
              find_of("h", Null) = Same(Ok(<<FirstIndexOf(Null)>>, TRUE))
        /\ IndicesOf(Null) = {} =>
              find_of("h", Null) = Same(Ok(<<not_found>>, TRUE))

\* the same, for PrimitiveList only
C11_FindNull_PrimitiveList == cls = "PrimitiveList" => C11_FindNull

(***************************************************************************)
(* C12: find(V) for a present value V returns the smallest list index      *)
(* whose element is present and equal to V, the not-found sentinel when    *)
(* there is none, and never the index of a null entry.                     *)
(***************************************************************************)
C12_FindValue ==
    attached =>
        \A v \in SearchValues \ {Null} :
            /\ find_of("h", v) = Same(Ok(<<FirstIndexOf(v)>>, TRUE))
            /\ \A k \in IndicesOf(Null) : find_of("h", v).res.result # <<k>>

\* the same, for PrimitiveList only
C12_FindValue_PrimitiveList == cls = "PrimitiveList" => C12_FindValue

(***************************************************************************)
(* C13: on an empty list, sum() returns none when the element type is      *)
(* optional int and 0 when it is non-optional int; average() returns none  *)
(* in both cases.                                                          *)
(***************************************************************************)
C13_EmptyAggregates ==
    (attached /\ Size = 0 /\ last.h = "h" /\ last.op \in {"sum", "average"}) =>
        /\ last.outcome = "ok"
        /\ last.result = (IF last.op = "sum" /\ ~opt THEN <<0>> ELSE <<Null>>)

\* the same, for PrimitiveList<int64_t> only
C13_EmptyAggregates_int64 == (cls = "PrimitiveList" /\ ~opt) => C13_EmptyAggregates

(***************************************************************************)
(* C14: sum() or average() on a bool, string, binary or timestamp list,    *)
(* and max() or min() on a bool, string or binary list, fails with         *)
(* UnsupportedColumnType and changes no stored data.                       *)
(***************************************************************************)
UnsupportedCall ==
    /\ last.h = "h" /\ attached
    /\ \/ /\ last.op \in {"sum", "average"}
          /\ T \in {"bool", "StringData", "BinaryData", "Timestamp"}
       \/ /\ last.op \in {"max", "min"}
          /\ T \in {"bool", "StringData", "BinaryData"}

C14_UnsupportedColumnType ==
    UnsupportedCall =>
        (last.outcome = "UnsupportedColumnType" /\ table = last.pre_table)

\* what the code does: it throws the string literal "unsupported"
C14_ThrowsStringLiteral ==
    UnsupportedCall => (last.outcome = "unsupported" /\ table = last.pre_table)

(***************************************************************************)
(* C15: a snapshot() taken when the list has n elements keeps reporting    *)
(* size n after an element is removed from the list, and get on the        *)
(* removed element's former index returns an absent value.  Before any of  *)
(* this can be observed the snapshot has to be handed to the caller:       *)
(* snapshot() on an attached PrimitiveList returns an engine.              *)
(***************************************************************************)
C15_SnapshotIsReturned ==
    (cls = "PrimitiveList" /\ attached /\ last.h = "h" /\ last.op = "snapshot") =>
        (last.outcome = "ok" /\ last.engine # "")

\* what the code does: the call never returns, whatever the list holds
C15_SnapshotNeverReturns ==
    (cls = "PrimitiveList" /\ attached /\ last.h = "h" /\ last.op = "snapshot") =>
        (last.outcome = "NoReturn" /\ table = last.pre_table)

(***************************************************************************)
(* C16: two handles are equal if and only if they reference the same       *)
(* storage location: handles on the same link list or backing table are    *)
(* ==, and handles that do not reference one and the same storage are not  *)
(* ==, also when both have no link list.  The two handles compared are     *)
(* two objects.                                                            *)
(***************************************************************************)
SameStorage(lft, rgt) ==
    HasStorage(lft) /\ HasStorage(rgt) /\ storage_ptr(lft) = storage_ptr(rgt)

C16_EqualIffSameStorage ==
    (last.op = "operator==" /\ last.h # last.args[1]) =>
        last.result = <<SameStorage(last.h, last.args[1])>>

\* what the code does: the claim holds once one of the two has storage, and
\* two handles without storage are ==
C16_EqualIffSameStorage_or_both_null ==
    (last.op = "operator==" /\ last.h # last.args[1]) =>
        last.result = <<SameStorage(last.h, last.args[1])
                        \/ (~HasStorage(last.h) /\ ~HasStorage(last.args[1]))>>

(***************************************************************************)
(* C17: for a scalar list of size n with one registered callback,          *)
(* committing a write transaction that appends one element produces        *)
(* exactly one delivery to that callback, reporting a single insertion at  *)
(* index n and no deletions or modifications; afterwards size() is n+1 and *)
(* get(n) is the appended value.                                           *)
(***************************************************************************)
\* the list the notifier of callback c saw before the delivery just made
Before(c) == last.args[1][c.notifier]

OneAppended(c) == Len(table) = Len(Before(c)) + 1 /\ IsPrefix(Before(c), table)

C17_AppendDeliversOneInsertion ==
    (cls = "PrimitiveList" /\ attached /\ last.op = "deliver") =>
        \A c \in tokens :
            (tokens = {c} /\ OneAppended(c)) =>
                LET n == Len(Before(c)) IN
                /\ last.result[1] = {[cb |-> c.id, insertions |-> {n},
                                      deletions |-> {}, modifications |-> {}]}
                /\ size_of("h") = Same(Ok(<<n + 1>>, TRUE))
                /\ get_of("h", n) = Same(Ok(<<table[n + 1]>>, TRUE))

C17_Witness ==
    /\ cls = "PrimitiveList" /\ attached /\ last.op = "deliver"
    /\ \E c \in tokens :
          /\ tokens = {c} /\ OneAppended(c) /\ Len(Before(c)) = 1
          /\ \E d \in last.result[1] : d.cb = c.id /\ d.insertions = {1}

(***************************************************************************)
(* C18: when two callbacks are registered on the same storage location and *)
(* the token of one is dropped, the other callback still receives every    *)
(* subsequent notification for that storage location.                      *)
(***************************************************************************)
C18_OtherCallbackStillNotified ==
    (last.op = "deliver" /\ dropped # {}) =>
        \A c \in tokens :
            Before(c) # Contents =>
                ([cb |-> c.id] @@ Changes(Before(c), Contents)) \in last.result[1]

C18_Witness ==
    /\ last.op = "deliver"
    /\ Cardinality(dropped) = 1 /\ Cardinality(tokens) = 1
    /\ \E c \in tokens : \E d \in last.result[1] :
          d.cb = c.id /\ d.insertions # {}

(***************************************************************************)
(* C19: after a NotificationToken is dropped, the callback it registered   *)
(* is never invoked again by any later transaction advance: no delivery    *)
(* reaches a deregistered callback.                                        *)
(***************************************************************************)
C19_NoDeliveryAfterDrop ==
    last.op = "deliver" => \A d \in last.result[1] : d.cb \notin dropped

C19_Witness ==
    last.op = "deliver" /\ dropped # {} /\ tokens = {} /\ last.result[1] = {}

(***************************************************************************)
(* C20: after any sequence of add_notification_callback calls at most one  *)
(* live notifier exists per storage location: handles that reference the   *)
(* same storage, also those constructed independently of one another,      *)
(* register their callbacks on the same notifier.                          *)
(***************************************************************************)
C20_OneNotifierPerStorage ==
    /\ \A m, n \in m_notifier : storage_ptr(m) = storage_ptr(n) => m = n
    /\ \A c, d \in callbacks :
          storage_ptr(c.notifier) = storage_ptr(d.notifier) => c.notifier = d.notifier

(***************************************************************************)
(* C27: in a write transaction, move(from, to) with both indices in        *)
(* [0, size()) puts the element that was at index from at index to, keeps  *)
(* the order of the other elements and keeps size() unchanged, for link    *)
(* lists and for primitive lists alike.                                    *)
(***************************************************************************)
PreContents == IF cls = "List" THEN last.pre_links ELSE last.pre_table

C27_MoveRelocates ==
    (last.h = "h" /\ last.op = "move" /\ last.outcome = "ok") =>
        Contents = MoveAt(PreContents, last.args[1], last.args[2])

\* what the code does: a link list moves the link, a primitive list moves
\* nothing
C27_MoveRelocates_links_only ==
    (last.h = "h" /\ last.op = "move" /\ last.outcome = "ok") =>
        Contents = (IF cls = "List"
                    THEN MoveAt(PreContents, last.args[1], last.args[2])
                    ELSE PreContents)

(***************************************************************************)
(* C28: a successful set(index, v) leaves size() unchanged and leaves the  *)
(* element at every index other than index unchanged, as get on the same   *)
(* handle reads it.  A link list is taken to hold each target row once.    *)
(***************************************************************************)
\* no two positions of a link list hold a link to one and the same row
Unaliased == \A i, j \in 1 .. Len(links) : links[i] = links[j] => i = j

C28_SetFrame ==
    (last.h = "h" /\ last.op = "set" /\ last.outcome = "ok" /\ Unaliased) =>
        /\ Size = PreSize
        /\ \A k \in 0 .. (Size - 1) :
              k # last.args[1] =>
                  Element(table, links, k) = Element(last.pre_table, last.pre_links, k)

\* the frame holds for PrimitiveList, and for a link list when no other
\* position links to target row index
C28_SetFrame_unless_linked ==
    (last.h = "h" /\ last.op = "set" /\ last.outcome = "ok" /\ Unaliased) =>
        /\ Size = PreSize
        /\ \A k \in 0 .. (Size - 1) :
              (k # last.args[1] /\ (cls = "List" => links[k + 1] # last.args[1])) =>
                  Element(table, links, k) = Element(last.pre_table, last.pre_links, k)

(***************************************************************************)
(* C21: every public operation invoked from an execution context other     *)
(* than the one owning the session is caught by the thread check and       *)
(* reported before the operation touches storage; none of them, get        *)
(* unchecked and the aggregates included, runs to completion.              *)
(***************************************************************************)
C21_ForeignContextReported ==
    (caller # "owner" /\ last.h = "h" /\ last.op \in Operations \cup {"get_unchecked"}) =>
        (last.outcome = "IncorrectThread" /\ ~last.touched)

\* what the code does: the operations that start with verify_attached report
\* the foreign context, get_unchecked and the aggregates have no check
C21_ForeignContextReported_where_checked ==
    (caller # "owner" /\ last.h = "h"
        /\ last.op \in Operations \ (AggregateOps \cup {"get_unchecked"})) =>
        (last.outcome = "IncorrectThread" /\ ~last.touched)

(***************************************************************************)
(* C29: when an operation violates several preconditions at once the       *)
(* failure reported follows one order: a detached handle yields            *)
(* Invalidated even if no write transaction is active; an attached handle  *)
(* outside a write transaction yields InvalidTransaction even if the index *)
(* is out of bounds; OutOfBoundsIndex is reported only when the handle is  *)
(* attached and, for a mutation, a write transaction is active.            *)
(***************************************************************************)
IndexedOps ==
    {"get", "get_row", "insert", "insert_link", "set", "set_link", "remove", "move", "swap"}

C29_FailureOrder ==
    (last.h = "h" /\ last.op \in MutatingOps \cup IndexedOps) =>
        /\ ~attached => last.outcome = "Invalidated"
        /\ (attached /\ ~inTx /\ last.op \in MutatingOps) =>
              last.outcome = "InvalidTransaction"
        /\ last.outcome = "OutOfBoundsIndex" =>
              (attached /\ last.bad_index /\ (last.op \in MutatingOps => inTx))

\* an insert past the end, outside a write transaction
C29_Witness ==
    /\ last.h = "h" /\ last.op = "insert" /\ last.bad_index
    /\ attached /\ ~inTx /\ last.outcome = "InvalidTransaction"

(***************************************************************************)
(* The engines (SpecResults).  The calls are those on the engine the       *)
(* caller holds: last.h = "results", last.pre_results the engine before.   *)
(***************************************************************************)
OnResults(ops) == last.h = "results" /\ last.op \in ops

\* C30: PrimitiveResults::snapshot() terminates and returns an engine, for the
\* lvalue (const&) overload and for the rvalue (&&) overload: the two do not
\* call each other without bound.
C30_SnapshotReturns ==
    (OnResults({"snapshot"}) /\ validate_read(last.pre_results) = "ok")
        => (last.outcome = "ok" /\ last.engine = "PrimitiveResults")

\* what the code does instead: no call of snapshot() on a readable engine returns
C30_SnapshotNeverReturns ==
    (OnResults({"snapshot"}) /\ validate_read(last.pre_results) = "ok")
        => last.outcome = "NoReturn"

\* the view an engine stands for, whatever it has cached: nothing, the
\* table, or the values of the rows its query and distinct select
CurrentView(e) ==
    CASE e.mode = "Empty" -> <<>>
      [] e.mode = "Table" -> table
      [] OTHER -> LET rows == Materialize(e, table) IN
                  [k \in 1 .. Len(rows) |-> table[rows[k] + 1]]
Readable(e) == validate_read(e) = "ok"

\* C22: in every mode, get(index) with index >= size() fails with
\* OutOfBoundsIndex{index, size()}, and with index < size() returns the
\* element at that position of the current view.
C22_GetBounds ==
    (OnResults({"get"}) /\ Readable(last.pre_results)) =>
        LET view == CurrentView(results) IN
        /\ last.outcome \in {"ok", "OutOfBoundsIndex"}
        /\ last.outcome = "OutOfBoundsIndex" =>
              (last.requested >= Len(view) /\ last.valid_count = Len(view))
        /\ last.outcome = "ok" =>
              (last.args[1] < Len(view) /\ last.result = <<view[last.args[1] + 1]>>)

\* an index inside the table and outside the view of a Query or TableView engine
C22_Witness ==
    /\ OnResults({"get"}) /\ last.pre_results.mode \in {"Query", "TableView"}
    /\ last.outcome = "OutOfBoundsIndex"
    /\ last.requested < Len(table) /\ last.valid_count > 0

\* C23: in every mode, first() and last() return none when the view has no
\* rows, and never fail for emptiness; otherwise they return the elements
\* at view positions 0 and size() - 1.
C23_FirstLast ==
    (OnResults({"first", "last"}) /\ Readable(last.pre_results)) =>
        LET view == CurrentView(results) IN
        /\ last.outcome = "ok"
        /\ last.result = (IF Len(view) = 0 THEN <<Null>>
                          ELSE IF last.op = "first" THEN <<view[1]>>
                          ELSE <<view[Len(view)]>>)

\* last() of a view whose last row is not the last row of the table
C23_Witness ==
    /\ OnResults({"last"}) /\ last.pre_results.mode \in {"Query", "TableView"}
    /\ last.outcome = "ok" /\ last.result # <<Null>>
    /\ Len(table) = MaxRows /\ last.result # <<table[Len(table)]>>

\* none from an engine over a table that has rows
C23_Witness_none ==
    /\ OnResults({"first"}) /\ last.pre_results.mode = "Query"
    /\ last.outcome = "ok" /\ last.result = <<Null>> /\ Len(table) > 0

\* C24: sort(s) and filter(q) do not mutate the receiver (query, sort order,
\* mode and so its answers stay); the engine sort(s) returns has
\* get_sort() = s and the receiver's filter; the engine filter(q) returns
\* has the receiver's sort order.
C24_SortFilterPure ==
    /\ OnResults({"sort", "filter"}) =>
          (last.outcome = "ok" /\ results = last.pre_results /\ table = last.pre_table)
    /\ OnResults({"sort"}) =>
          /\ last.result[1].m_sort = last.args[1]
          /\ last.result[1].query = get_query(last.pre_results)
    /\ OnResults({"filter"}) =>
          /\ last.result[1].m_sort = last.pre_results.m_sort
          /\ last.result[1].query = get_query(last.pre_results) \cap last.args[1]

\* a filtered engine sorted anew
C24_Witness ==
    /\ OnResults({"sort"}) /\ last.outcome = "ok"
    /\ last.pre_results.mode = "Query" /\ last.pre_results.query # where
    /\ last.pre_results.has_tv
    /\ last.args[1] # last.pre_results.m_sort

C25_Witness_read ==
    /\ OnResults({"get"}) /\ last.outcome = "ok" /\ last.pre_results.tv_distinct
    /\ last.pre_results.seen = table /\ Len(table) > Len(results.tv)

\* the answer of a read computed from a view
FreshAnswer(op, args, view) ==
    CASE op = "get" -> <<view[args[1] + 1]>>
      [] op = "first" -> IF view = <<>> THEN <<Null>> ELSE <<view[1]>>
      [] op = "last" -> IF view = <<>> THEN <<Null>> ELSE <<view[Len(view)]>>
      [] op = "index_of" -> <<find_first(view, args[1])>>
      [] OTHER -> TableAggregate(op, view)

\* C26: in Query or TableView mode no read (get, first, last, index_of, max,
\* min, sum, average) reads the materialized view without first bringing it
\* up to date: after the data changed, the next read on an auto-updating
\* engine never answers from the stale materialization.
C26_NoStaleRead ==
    (OnResults(ReadOps) /\ last.pre_results.mode \in {"Query", "TableView"}
        /\ last.pre_results.auto_update /\ last.outcome = "ok") =>
        /\ results.has_tv /\ results.seen = table
        /\ results.tv = Materialize(results, table)
        /\ last.result = FreshAnswer(last.op, last.args, CurrentView(results))

\* a read of an engine whose cached view the table has since outgrown,
\* answering what the cached view could not
C26_Witness ==
    /\ OnResults({"index_of"}) /\ last.outcome = "ok"
    /\ last.pre_results.mode \in {"Query", "TableView"} /\ last.pre_results.has_tv
    /\ last.pre_results.tv # Materialize(last.pre_results, table)
    /\ last.result # <<find_first([k \in 1 .. Len(last.pre_results.tv) |->
                           IF last.pre_results.tv[k] < Len(table)
                           THEN table[last.pre_results.tv[k] + 1] ELSE Null],
                                  last.args[1])>>

\* what sum() or average() gives on an engine over the present rows
AggregateOutcome(e, name) ==
    LET r == PrimitiveResults_aggregate_in(e, name, "Crash").res IN
    [outcome |-> r.outcome, result |-> r.result]

\* C31: for the same element type and the same rows, sum() and average() give
\* the same outcome (the same value or the same failure) in Table mode and
\* in Query/TableView mode; int64, float and double are supported in both.
C31_SameInBothModes ==
    attached =>
        \A name \in {"sum", "average"} :
            /\ AggregateOutcome(PrimitiveResults_of_table, name)
                 = AggregateOutcome(PrimitiveResults_of_query(where, "None", FALSE), name)
            /\ T \in {"int64_t", "float", "double"} =>
                 AggregateOutcome(PrimitiveResults_of_table, name).outcome = "ok"

\* what holds: the two modes agree for every type but float and double
C31_SameInBothModes_but_float_double ==
    (attached /\ T \notin {"float", "double"}) =>
        \A name \in {"sum", "average"} :
            AggregateOutcome(PrimitiveResults_of_table, name)
              = AggregateOutcome(PrimitiveResults_of_query(where, "None", FALSE), name)

\* C33: on a link list, find(row) returns not-found when the row reference
\* is detached or belongs to a table other than the target table, and
\* otherwise the position in the link list of the first link to that row
\* (not-found if there is none); it never mutates the list.
C33_FindRow ==
    (last.h = "h" /\ last.op = "find_row" /\ attached) =>
        /\ last.outcome = "ok"
        /\ LET row == last.args[1]
               at == {k \in 0 .. (Len(links) - 1) : links[k + 1] = row[3]} IN
           last.result = <<IF ~row[1] \/ ~row[2] \/ at = {} THEN not_found
                           ELSE CHOOSE k \in at : \A j \in at : k <= j>>
        /\ links = last.pre_links /\ table = last.pre_table

\* a row of another table whose index the list links to
C33_Witness ==
    /\ last.h = "h" /\ last.op = "find_row" /\ last.outcome = "ok"
    /\ last.args[1][1] /\ ~last.args[1][2]
    /\ \E k \in 1 .. Len(links) : links[k] = last.args[1][3]
    /\ last.result = <<not_found>>

\* C32: an engine in Empty mode answers every query with empty/none:
\* index_of returns not-found; first, last, max, min, sum and average return
\* none; get(i) fails with OutOfBoundsIndex for every i; and no operation
\* on it touches a table.
C32_EmptyAnswers ==
    (OnResults(ReadOps) /\ last.pre_results.mode = "Empty") =>
        /\ ~last.touched /\ results = last.pre_results /\ table = last.pre_table
        /\ last.op = "get" =>
              (last.outcome = "OutOfBoundsIndex" /\ last.requested \in 0 .. MaxRows
               /\ last.valid_count = 0)
        /\ last.op = "index_of" => (last.outcome = "ok" /\ last.result = <<not_found>>)
        /\ last.op \notin {"get", "index_of"} =>
              (last.outcome = "ok" /\ last.result = <<Null>>)

\* sum() of a default-constructed engine held while the list has rows
C32_Witness ==
    /\ OnResults({"sum"}) /\ last.pre_results.mode = "Empty"
    /\ Len(table) > 0 /\ last.result = <<Null>>

\* get(0) of a default-constructed engine after the list was detached
C32_Witness_get ==
    /\ OnResults({"get"}) /\ last.pre_results.mode = "Empty" /\ ~attached
    /\ last.outcome = "OutOfBoundsIndex" /\ last.requested = 0

\* C34: the distinct condition is carried by the engine: is_distinct() is
\* true on the engine distinct() returns, and stays true on every engine
\* derived from it by sort() or filter().
C34_DistinctCarried ==
    /\ (OnResults({"distinct"}) /\ last.outcome = "ok") => is_distinct(last.result[1])
    /\ (OnResults({"sort", "filter"}) /\ last.outcome = "ok"
           /\ is_distinct(last.pre_results)) => is_distinct(last.result[1])

\* what holds: is_distinct() on the engine distinct() itself returns
C34_DistinctCarried_by_distinct ==
    (OnResults({"distinct"}) /\ last.outcome = "ok") => is_distinct(last.result[1])

\* what the code does: no engine sort() or filter() returns is distinct
C34_DistinctDropped ==
    (OnResults({"sort", "filter"}) /\ last.outcome = "ok") =>
        (~is_distinct(last.result[1]) /\ ~last.result[1].tv_distinct)

(***************************************************************************)
(* Permissions (SpecPermissions).  sync.calls and sync.changes are the     *)
(* invocations of the two user callbacks so far; sync.notification is the  *)
(* last notification delivered.  The Permission table only grows and       *)
(* statusCode is set once, so "empty" and "unset" now mean empty and unset *)
(* at every earlier notification.                                          *)
(***************************************************************************)
\* C35: get_permissions never invokes the user callback before the
\* download-completion signal has fired, and never with results while the
\* Permission results are empty and there is no error: a notification with
\* size 0 and no error produces no callback, and if the signal never fires
\* the callback is never invoked.
C35_NoEarlyCallback ==
    /\ sync.get \in {"idle", "waiting", "notified"} => sync.calls = <<>>
    /\ \A k \in 1 .. Len(sync.calls) : ~sync.calls[k].ex => sync.calls[k].size > 0
    /\ (sync.notification = [to |-> "async", ex |-> FALSE] /\ sync.size = 0) =>
          sync.calls = <<>>

\* a notification without error for the still empty Permission results
C35_Witness ==
    /\ sync.get = "registered" /\ sync.size = 0
    /\ sync.notification = [to |-> "async", ex |-> FALSE]
    /\ sync.calls = <<>>

\* C36: get_permissions invokes the user callback at most once per call:
\* once it has been invoked (with an error or with results) the box holding
\* the results and the token is released, and no later change notification
\* invokes it again, in any order of error and non-empty notifications.
C36_AtMostOnce ==
    /\ Len(sync.calls) <= 1
    /\ sync.calls # <<>> => sync.get = "released"

\* the callback was invoked with an error and the Permission table changed after
C36_Witness ==
    /\ Len(sync.calls) = 1 /\ sync.calls[1].ex
    /\ sync.size > 0 /\ sync.delivered < MaxNotifications

\* C37: set_permission invokes its callback at most once, and only when a
\* notification carries an error or statusCode has been set: none while
\* statusCode is unset and there is no error; statusCode 0 gives a callback
\* with no exception, a non-zero statusCode one with a
\* PermissionChangeException carrying the code; the token is then released.
C37_ChangeCallback ==
    /\ Len(sync.changes) <= 1
    /\ sync.changes # <<>> => sync.set = "released"
    /\ (sync.notification = [to |-> "block", ex |-> FALSE] /\ sync.statusCode = Null) =>
          sync.changes = <<>>
    /\ \A k \in 1 .. Len(sync.changes) :
          LET c == sync.changes[k] IN
          /\ c.exception = "nullptr" => sync.statusCode = 0
          /\ c.exception = "PermissionChangeException" =>
                (sync.statusCode # Null /\ sync.statusCode # 0 /\ c.code = sync.statusCode)
    /\ (sync.notification = [to |-> "block", ex |-> FALSE] /\ sync.statusCode # Null
           /\ sync.set = "released") => sync.changes # <<>>

\* the server refused the change
C37_Witness ==
    /\ Len(sync.changes) = 1
    /\ sync.changes[1].exception = "PermissionChangeException"
    /\ sync.delivered < MaxNotifications

\* C38: access levels round-trip through the permission flags: for every
\* level a, extract_access_level of the flags set_permission writes for a
\* is a; and extract_access_level returns the highest level whose flag is
\* set, None when no flag is set or present.
Rank(level) ==
    CASE level = "None" -> 0 [] level = "Read" -> 1 [] level = "Write" -> 2
      [] level = "Admin" -> 3
Granted(permission) ==
    {"None"} \cup (IF permission.mayRead = "true" THEN {"Read"} ELSE {})
             \cup (IF permission.mayWrite = "true" THEN {"Write"} ELSE {})
             \cup (IF permission.mayManage = "true" THEN {"Admin"} ELSE {})
C38_AccessRoundTrip ==
    /\ \A a \in AccessLevels : extract_access_level(PermissionChange(a)) = a
    /\ \A p \in [mayRead : AnyBool, mayWrite : AnyBool, mayManage : AnyBool] :
          /\ extract_access_level(p) \in Granted(p)
          /\ \A g \in Granted(p) : Rank(g) <= Rank(extract_access_level(p))
    /\ sync.set # "idle" =>
          \E a \in AccessLevels :
              sync.object = PermissionChange(a) /\ extract_access_level(sync.object) = a

\* set_permission has written the flags of Write: mayRead and mayWrite
C38_Witness ==
    /\ sync.set # "idle"
    /\ sync.object.mayRead = "true" /\ sync.object.mayWrite = "true"
    /\ extract_access_level(sync.object) = "Write"

====
